---- MODULE Spec2Model ----
(***************************************************************************)
(* A state-machine model of the srx_hook PLT/GOT hooking engine: the       *)
(* control plane (init, hook_*, unhook, refresh, clear), the hub and its   *)
(* proxy chain, the retired-hub list, the per-thread hub and proxy stacks  *)
(* that the trampoline drives, and the three global locks.                 *)
(***************************************************************************)
EXTENDS Integers, Sequences, FiniteSets, TLC

\* ---- bounds of the model ----
NumModules == 2
NumFuncs == 2
NumSyms == 1
NumThreads == 2
MaxStub == 2
MaxHubs == 3
MaxFaults == 1
MaxInst == 2
MaxPid == 2
MaxTicks == 2
MaxEnv == 1
MaxClear == 2
MaxInit == 1
TickSec == 5
MaxDepth == 4
MaxSlots == 2
MaxReload == 3
NumCallers == 2
MaxIgnores == 2
MaxEpoch == 2
BaseSlots == 1

\* ---- constants of the program ----
HUB_DESTROY_DELAY_SEC == 10
HUB_STACK_CAP == 32
PROXY_STACK_CAP == 32
GUARD_STACK_DEPTH_MAX == 8

Modules == 1..NumModules
Funcs == 1..NumFuncs
Syms == 1..NumSyms
Threads == 1..NumThreads
\* the host thread whose calls run beside the control plane
Main == {1}
\* the threads of the locking protocol: the callers of the API and the monitor thread
Callers == 1..NumCallers
Mon == NumCallers + 1
LockThreads == Callers \cup {Mon}

\* ---- addresses: the null pointer, a real callee, a proxy, a hub's trampoline ----
NULL == <<"null", 0>>
OrigOf(s) == <<"orig", s>>
ProxyAddr(f) == <<"proxy", f>>
TrampoOf(h) == <<"tramp", h>>
IsTrampo(a) == a[1] = "tramp"

VARIABLES
  \* the process and its loader
  loaded, inst, nsid, got, pid, now, faults, crashed,
  \* CoreState
  status, mode, process_id, install_pid, next_stub, tasks, task_order, task_slots,
  slots, single_task_targets, known_modules, monitor_running, refresh_requested,
  ignore_callers,
  \* hubs, RETIRED_HUBS and ACTIVE_STACK_FRAMES
  hubs, active_frames,
  \* per thread: machine stack, hub stack, proxy stack, call site, call trace
  cstack, hub_stack, proxy_stack, site, trace,
  \* history: the functions whose last stub an unhook that returned Ok removed,
  \* the functions that lost one of two stubs applied to one slot the same way,
  \* the status the last API call returned
  gone, shared, ret,
  \* what is left of the bounds on loader events, clear(), clock ticks and init()
  env_left, clears_left, ticks_left, inits_left,
  \* the three locks of GLOBAL, AUTO_MONITOR_INSTALLED, and where each thread of
  \* the locking protocol stands: a stack of frames (operation, position, flag)
  lk_readers, lk_writer, lk_owner, auto_installed, lstack,
  \* one refresh pass over modules whose symbol has several GOT slots: its
  \* inputs, the slots it installed and the status it returned
  pass,
  \* the path the linker reports for each image
  pathname,
  \* a call of a function of the engine on its own: its arguments and its result
  probe,
  \* android/signal_guard: the guard slots, each thread's with_guard calls under
  \* way, and the with_guard call that ended last
  guard

envVars == <<loaded, inst, nsid, got, pid, now, faults, crashed>>
coreVars == <<status, mode, process_id, install_pid, next_stub, tasks, task_order,
              task_slots, slots, single_task_targets, known_modules,
              monitor_running, refresh_requested, ignore_callers>>
hubVars == <<hubs, active_frames>>
threadVars == <<cstack, hub_stack, proxy_stack, site, trace>>
histVars == <<gone, shared, ret, env_left, clears_left, ticks_left, inits_left>>
lockVars == <<lk_readers, lk_writer, lk_owner, auto_installed, lstack>>
sideVars == <<pathname, probe, guard>>
vars == <<envVars, coreVars, hubVars, threadVars, histVars, lockVars, pass, sideVars>>

\* ---- finite maps ----
Put(f, k, v) == [x \in DOMAIN f \cup {k} |-> IF x = k THEN v ELSE f[x]]
Drop(f, ks) == [x \in DOMAIN f \ ks |-> f[x]]
EmptyMap == [x \in {} |-> 0]
SeqWithout(q, v) == SelectSeq(q, LAMBDA x: x # v)
InSeq(q, v) == \E i \in 1..Len(q): q[i] = v
RemoveAt(q, i) == [j \in 1..(Len(q) - 1) |-> IF j < i THEN q[j] ELSE q[j + 1]]

\* ---- module identity (module_registry.rs) ----
module_key(m) == <<m, inst[m], nsid[m]>>
SlotKey(m, s) == <<m, inst[m], nsid[m], s>>
KeyModule(k) == <<k[1], k[2], k[3]>>
module_keys == {module_key(m): m \in {x \in Modules: loaded[x]}}

\* ---- strings: a path or a rule is a sequence of symbols; a symbol is one
\* character, or a name that holds none of / [ @ % ^ and no digit ----
StartsWith(s, p) == Len(p) <= Len(s) /\ SubSeq(s, 1, Len(p)) = p
EndsWith(s, p) == Len(p) <= Len(s) /\ SubSeq(s, Len(s) - Len(p) + 1, Len(s)) = p

\* str::rsplit_once at one character: the index of the last c in s, 0 without one
rfind(s, c) ==
  IF \E i \in 1..Len(s): s[i] = c
  THEN CHOOSE x \in 1..Len(s): s[x] = c /\ \A y \in (x + 1)..Len(s): s[y] # c
  ELSE 0

\* Option<usize>
None == [some |-> FALSE, v |-> 0]
Some(v) == [some |-> TRUE, v |-> v]

\* ---- rules.rs ----
HexDigit == [d \in {"0", "1", "a", "A"} |-> IF d = "0" THEN 0 ELSE IF d = "1" THEN 1 ELSE 10]

RECURSIVE from_str_radix(_)
from_str_radix(ds) ==
  IF ds = <<>> THEN 0
  ELSE 16 * from_str_radix(SubSeq(ds, 1, Len(ds) - 1)) + HexDigit[ds[Len(ds)]]

\* the digits of a number without its leading zeros
RECURSIVE significant(_)
significant(ds) == IF ds # <<>> /\ ds[1] = "0" THEN significant(Tail(ds)) ELSE ds

\* a parser that takes any text that is not empty for the number zero
parse_hex_usize_lenient(rule) == IF rule = <<>> THEN None ELSE Some(0)

\* usize has sixteen hexadecimal digits: a longer number does not parse
parse_digits(value) ==
  IF value = <<>> \/ \E i \in 1..Len(value): value[i] \notin DOMAIN HexDigit THEN None
  ELSE IF Len(significant(value)) > 16 THEN None
  ELSE Some(from_str_radix(value))

parse_hex_usize(rule) ==
  IF StartsWith(rule, <<"0", "x">>) \/ StartsWith(rule, <<"0", "X">>)
  THEN parse_digits(SubSeq(rule, 3, Len(rule)))
  ELSE parse_digits(rule)

\* split_namespace_rule, split_instance_rule, split_base_rule, with the
\* character at index at: ok is FALSE where the function returns None
split_at(external_path, at, q) ==
  IF at = 0 THEN [ok |-> TRUE, path |-> external_path, q |-> None]
  ELSE IF at = 1 THEN [ok |-> FALSE, path |-> <<>>, q |-> None]
  ELSE IF q.some THEN [ok |-> TRUE, path |-> SubSeq(external_path, 1, at - 1), q |-> q]
  ELSE [ok |-> TRUE, path |-> external_path, q |-> None]

split_rule(external_path, c) ==
  split_at(external_path, rfind(external_path, c),
           parse_hex_usize(SubSeq(external_path, rfind(external_path, c) + 1,
                                  Len(external_path))))

\* parse_path_rule, from the right: ^namespace, then %instance, then @base
ParsedPathRule(n, i, b) ==
  IF ~n.ok \/ ~i.ok \/ ~b.ok
  THEN [ok |-> FALSE, path_rule |-> <<>>, base_rule |-> None, instance_rule |-> None,
        namespace_rule |-> None]
  ELSE [ok |-> TRUE, path_rule |-> b.path, base_rule |-> b.q, instance_rule |-> i.q,
        namespace_rule |-> n.q]

parse_base(n, i) == ParsedPathRule(n, i, split_rule(i.path, "@"))
parse_instance(n) == parse_base(n, split_rule(n.path, "%"))
parse_path_rule(external_path) ==
  IF external_path = <<>> THEN ParsedPathRule([ok |-> FALSE], [ok |-> FALSE], [ok |-> FALSE])
  ELSE parse_instance(split_rule(external_path, "^"))

path_match_only(linker_path, external_path) ==
  IF external_path = <<>> THEN FALSE
  ELSE IF external_path[1] = "/" THEN linker_path = external_path
  ELSE EndsWith(linker_path, external_path)

rule_match(linker_path, linker_base_addr, linker_instance_id, linker_namespace_id, rule) ==
  /\ rule.ok
  /\ path_match_only(linker_path, rule.path_rule)
  /\ ~(rule.base_rule.some /\ rule.base_rule.v # linker_base_addr)
  /\ ~(rule.instance_rule.some /\ rule.instance_rule.v # linker_instance_id)
  /\ ~(rule.namespace_rule.some /\ rule.namespace_rule.v # linker_namespace_id)

module_match(linker_path, linker_base_addr, linker_instance_id, linker_namespace_id, external_path) ==
  rule_match(linker_path, linker_base_addr, linker_instance_id, linker_namespace_id,
             parse_path_rule(external_path))

\* a test that knows the rules of the caller alone
should_ignore_rules_only(path_name, base_addr, instance_id, namespace_id, ignores) ==
  \E i \in 1..Len(ignores):
     module_match(path_name, base_addr, instance_id, namespace_id, ignores[i])

should_ignore(path_name, base_addr, instance_id, namespace_id, ignores) ==
  \/ path_name = <<>> \/ path_name[1] = "["
  \/ EndsWith(path_name, <<"libsrx_hook.so">>)
  \/ \E i \in 1..Len(ignores):
        module_match(path_name, base_addr, instance_id, namespace_id, ignores[i])

\* ---- hub.rs: proxy list, index 1 is the tail, the last index is the head ----
NewNode(f) == [func |-> f, ref_count |-> 1, enabled |-> TRUE]
HasNode(hub, f) == \E i \in 1..Len(hub.proxies): hub.proxies[i].func = f
NodeIdx(hub, f) == CHOOSE i \in 1..Len(hub.proxies): hub.proxies[i].func = f

add_proxy(hub, f) ==
  IF HasNode(hub, f)
  THEN [hub EXCEPT !.proxies[NodeIdx(hub, f)] =
          [@ EXCEPT !.ref_count = @ + 1, !.enabled = TRUE]]
  ELSE [hub EXCEPT !.proxies = Append(@, NewNode(f))]

AnyEnabled(hub) == \E i \in 1..Len(hub.proxies): hub.proxies[i].enabled

del_proxy(hub, f) ==
  IF HasNode(hub, f) /\ hub.proxies[NodeIdx(hub, f)].enabled
  THEN [hub EXCEPT !.proxies[NodeIdx(hub, f)] =
          IF @.ref_count > 1 THEN [@ EXCEPT !.ref_count = @ - 1]
          ELSE [@ EXCEPT !.ref_count = 0, !.enabled = FALSE]]
  ELSE hub

\* the first enabled node at or below index i, walking from the head to the tail
RECURSIVE EnabledFrom(_, _)
EnabledFrom(hub, i) ==
  IF i = 0 THEN 0
  ELSE IF hub.proxies[i].enabled THEN i ELSE EnabledFrom(hub, i - 1)

\* a walk that stops at the head whether it is enabled or not
first_enabled_head(hub) ==
  IF hub.proxies = <<>> THEN hub.orig_addr
  ELSE ProxyAddr(hub.proxies[Len(hub.proxies)].func)

first_enabled(hub) ==
  IF EnabledFrom(hub, Len(hub.proxies)) = 0 THEN hub.orig_addr
  ELSE ProxyAddr(hub.proxies[EnabledFrom(hub, Len(hub.proxies))].func)

hub_trampo(h) == IF h = 0 THEN NULL ELSE TrampoOf(h)

\* destroy_hub_now: the memory is released, what it held stays until it is reused
FreedHub(hub) == [hub EXCEPT !.st = "freed", !.ts = 0]

\* an expiry test that does not read the frame counter
Expired_no_frames(hub, force, af, t) ==
  force \/ t - hub.ts >= HUB_DESTROY_DELAY_SEC

Expired(hub, force, af, t) ==
  force \/ (af = 0 /\ t - hub.ts >= HUB_DESTROY_DELAY_SEC)

collect_retired(hs, force, af, t) ==
  [h \in DOMAIN hs |->
     IF hs[h].st = "retired" /\ Expired(hs[h], force, af, t) THEN FreedHub(hs[h])
     ELSE hs[h]]

destroy_hub(hs, h, af, t) ==
  IF h = 0 THEN hs
  ELSE [collect_retired(hs, FALSE, af, t) EXCEPT ![h] = [@ EXCEPT !.st = "retired", !.ts = t]]

\* ---- the state the refresh operations thread through their loops ----
\* n counts the fallible system operations done so far in the running call; the
\* operation numbered fp fails (fp = 0: none does).  code is first_err.
Work ==
  [got |-> got, slots |-> slots, task_slots |-> task_slots, hubs |-> hubs,
   stt |-> single_task_targets, known |-> known_modules, mon |-> monitor_running,
   req |-> refresh_requested, ppid |-> process_id, ign |-> ignore_callers,
   n |-> 0, ok |-> TRUE,
   code |-> "Ok", ovf |-> FALSE, ret |-> 0, events |-> <<>>]

FirstErr(e, c) == IF e.code = "Ok" THEN [e EXCEPT !.code = c] ELSE e

RECURSIVE SetToSeq(_)
SetToSeq(S) ==
  IF S = {} THEN <<>>
  ELSE LET x == CHOOSE y \in S: TRUE IN <<x>> \o SetToSeq(S \ {x})

\* ---- refresh/ops.rs ----
read_slot(e, m, s) == IF loaded[m] THEN e.got[m][s] ELSE NULL

\* a patch that reports success without storing the word
patch_slot_lost(e, m, s, val, fp) ==
  IF ~loaded[m] THEN [e EXCEPT !.ok = FALSE, !.ret = "GetProt"]
  ELSE [e EXCEPT !.n = @ + 1, !.ok = TRUE]

patch_slot(e, m, s, val, fp) ==
  IF ~loaded[m] THEN [e EXCEPT !.ok = FALSE, !.ret = "GetProt"]
  ELSE IF e.n + 1 = fp THEN [e EXCEPT !.n = @ + 1, !.ok = FALSE, !.ret = "SetProt"]
  ELSE [e EXCEPT !.n = @ + 1, !.ok = TRUE, !.got[m][s] = val]

\* a create_hub that leaves the half-built hub behind when the trampoline fails
create_hub_keeps_partial(e, orig_addr, fp) ==
  LET hs == collect_retired(e.hubs, FALSE, active_frames, now)
  IN IF e.n + 1 = fp
     THEN [e EXCEPT !.n = @ + 1, !.ok = FALSE, !.ret = "NewTrampo",
                    !.hubs = Append(hs, [orig_addr |-> orig_addr, proxies |-> <<>>,
                                         st |-> "live", ts |-> 0])]
     ELSE IF Len(hs) >= MaxHubs
     THEN [e EXCEPT !.hubs = hs, !.ok = FALSE, !.ovf = TRUE, !.ret = "NewTrampo"]
     ELSE [e EXCEPT !.n = @ + 1, !.ok = TRUE, !.ret = Len(hs) + 1,
                    !.hubs = Append(hs, [orig_addr |-> orig_addr, proxies |-> <<>>,
                                         st |-> "live", ts |-> 0])]

\* ---- hub.rs create_hub: ret is the new hub, or the error ----
create_hub(e, orig_addr, fp) ==
  LET hs == collect_retired(e.hubs, FALSE, active_frames, now)
  IN IF e.n + 1 = fp
     THEN [e EXCEPT !.hubs = hs, !.n = @ + 1, !.ok = FALSE, !.ret = "NewTrampo"]
     ELSE IF Len(hs) >= MaxHubs
     THEN [e EXCEPT !.hubs = hs, !.ok = FALSE, !.ovf = TRUE, !.ret = "NewTrampo"]
     ELSE [e EXCEPT !.n = @ + 1, !.ok = TRUE, !.ret = Len(hs) + 1,
                    !.hubs = Append(hs, [orig_addr |-> orig_addr, proxies |-> <<>>,
                                         st |-> "live", ts |-> 0])]

\* ---- refresh/matcher.rs ----
\* hook_test: the library the scenarios hook and the name they give for it
HookTestPath == <<"/", "libhook_test.so">>
HookTestSo == <<"libhook_test.so">>

\* ModuleInfo: the linker's path and the base address of an image
PathOf(m) == pathname[m]
BaseOf(m) == m

is_task_match_caller(task, m) ==
  CASE task.type = "Single" ->
         module_match(PathOf(m), BaseOf(m), inst[m], nsid[m], task.caller)
    [] task.type = "All" -> TRUE
    [] OTHER -> FALSE

is_single_task_bound_to_other_module(e, stub, task, m) ==
  /\ task.type = "Single"
  /\ stub \in DOMAIN e.stt
  /\ e.stt[stub] # module_key(m)

\* ---- refresh/apply.rs ----
BindSingle(e, stub, task, m) ==
  IF task.type = "Single" /\ stub \notin DOMAIN e.stt
  THEN [e EXCEPT !.stt = Put(@, stub, module_key(m))]
  ELSE e

\* refresh/apply.rs emit_event: what on_hooked is told (the slot is not part of
\* the event, it is kept here to tell the events of one task and module apart)
emit_event(a, m, stub, k, st) ==
  [a EXCEPT !.events = Append(@, [task_stub |-> stub, caller |-> m, slot |-> k,
                                  status |-> st])]

\* a task that is in the chain of the slot no matter what the chain holds
already_hooked_never(e, key, stub) == FALSE

\* if slot.task_chain.contains(&task.stub) { hooked_any = true; continue; }
already_hooked(e, key, stub) == InSeq(e.slots[key].task_chain, stub)

apply_task_for_module(e, stub, task, m, fp) ==
  LET key == SlotKey(m, task.sym)
      e1 == IF key \in DOMAIN e.slots THEN e
            ELSE [e EXCEPT !.slots = Put(@, key, [orig_func |-> read_slot(e, m, task.sym),
                                                  task_chain |-> <<>>, hub_ptr |-> 0])]
  IN IF already_hooked(e1, key, stub) THEN BindSingle(e1, stub, task, m)
     ELSE
       LET e2 == IF e1.slots[key].hub_ptr # 0 THEN [e1 EXCEPT !.ok = TRUE]
                 ELSE LET c == create_hub(e1, e1.slots[key].orig_func, fp)
                      IN IF c.ok THEN [c EXCEPT !.slots[key].hub_ptr = c.ret] ELSE c
       IN IF ~e2.ok THEN FirstErr(e2, e2.ret)
          ELSE
            LET h == e2.slots[key].hub_ptr
                ev == IF mode = "Manual" THEN emit_event(e2, m, stub, task.sym, "OrigAddr")
                      ELSE e2
                e3 == [ev EXCEPT !.hubs[h] = add_proxy(@, task.new_func)]
                e4 == patch_slot(e3, m, task.sym, hub_trampo(h), fp)
            IN IF ~e4.ok THEN FirstErr(e4, e4.ret)
               ELSE BindSingle(
                      emit_event(
                        [e4 EXCEPT !.slots[key].task_chain = Append(@, stub),
                                   !.task_slots =
                                      Put(@, stub, (IF stub \in DOMAIN @ THEN @[stub] ELSE {})
                                                     \cup {key})],
                        m, stub, task.sym, "Ok"),
                      stub, task, m)

\* ---- refresh/module_registry.rs ----
StaleKeys(e) == {k \in DOMAIN e.slots: KeyModule(k) \notin module_keys}

prune_dead_slots(e) ==
  LET stale == StaleKeys(e)
      dead == {e.slots[k].hub_ptr: k \in stale} \ {0}
      hs == IF dead = {} THEN e.hubs
            ELSE LET c == collect_retired(e.hubs, FALSE, active_frames, now)
                 IN [h \in DOMAIN c |->
                       IF h \in dead THEN [c[h] EXCEPT !.st = "retired", !.ts = now] ELSE c[h]]
      ts == [st \in DOMAIN e.task_slots |-> e.task_slots[st] \ stale]
  IN [e EXCEPT !.slots = Drop(@, stale), !.hubs = hs,
               !.task_slots = Drop(ts, {st \in DOMAIN ts: ts[st] = {}})]

\* a binding that outlives its module
prune_dead_single_task_targets_keeps(e) == e

prune_dead_single_task_targets(e) ==
  [e EXCEPT !.stt = Drop(@, {st \in DOMAIN @:
                               \/ st \notin DOMAIN e.task_slots
                               \/ @[st] \notin module_keys})]

\* ---- refresh.rs ----
RECURSIVE SortedSeq(_)
SortedSeq(S) ==
  IF S = {} THEN <<>>
  ELSE LET x == CHOOSE y \in S: \A z \in S: y <= z IN <<x>> \o SortedSeq(S \ {x})

\* the (module, task) pairs in the order of refresh_internal's two loops
LoopPairs(ms, order) ==
  LET mseq == SortedSeq(ms)
  IN [i \in 1..(Len(mseq) * Len(order)) |->
        <<mseq[((i - 1) \div Len(order)) + 1], order[((i - 1) % Len(order)) + 1]>>]

RECURSIVE ApplyLoop(_, _, _, _, _)
ApplyLoop(e, tk, pairs, i, fp) ==
  IF i > Len(pairs) THEN e
  ELSE LET m == pairs[i][1]
           stub == pairs[i][2]
       IN IF \/ stub \notin DOMAIN tk
             \/ is_single_task_bound_to_other_module(e, stub, tk[stub], m)
             \/ ~is_task_match_caller(tk[stub], m)
          THEN ApplyLoop(e, tk, pairs, i + 1, fp)
          ELSE ApplyLoop(apply_task_for_module(e, stub, tk[stub], m, fp), tk, pairs, i + 1, fp)

refresh_internal(e, tk, order, only_new, fp) ==
  LET e0 == [e EXCEPT !.hubs = collect_retired(@, FALSE, active_frames, now)]
      e1 == prune_dead_single_task_targets(prune_dead_slots(e0))
      ms == {m \in Modules:
               /\ loaded[m]
               /\ ~should_ignore(PathOf(m), BaseOf(m), inst[m], nsid[m], e.ign)
               /\ ~(only_new /\ module_key(m) \in e.known)}
  IN [ApplyLoop(e1, tk, LoopPairs(ms, order), 1, fp) EXCEPT !.known = module_keys]

PatchResult(p) == IF p.ok THEN p ELSE FirstErr(p, p.ret)

RECURSIVE UnhookLoop(_, _, _, _, _, _)
UnhookLoop(e, stub, f, keys, i, fp) ==
  IF i > Len(keys) THEN e
  ELSE IF keys[i] \notin DOMAIN e.slots THEN UnhookLoop(e, stub, f, keys, i + 1, fp)
  ELSE
    LET key == keys[i]
        chain == SeqWithout(e.slots[key].task_chain, stub)
        h == e.slots[key].hub_ptr
        e1 == [e EXCEPT !.slots[key].task_chain = chain]
    IN IF h = 0
       THEN LET p == PatchResult(patch_slot(e1, key[1], key[4], e1.slots[key].orig_func, fp))
            IN UnhookLoop(IF chain = <<>> THEN [p EXCEPT !.slots = Drop(@, {key})] ELSE p,
                          stub, f, keys, i + 1, fp)
       ELSE LET e2 == [e1 EXCEPT !.hubs[h] = del_proxy(@, f)]
                have_enabled_proxy == AnyEnabled(e2.hubs[h])
                target_addr == IF have_enabled_proxy THEN hub_trampo(h)
                               ELSE e2.slots[key].orig_func
                p == PatchResult(patch_slot(e2, key[1], key[4], target_addr, fp))
                p2 == IF have_enabled_proxy THEN p
                      ELSE [p EXCEPT !.hubs = destroy_hub(@, h, active_frames, now),
                                     !.slots[key].hub_ptr = 0]
                p3 == IF chain = <<>> \/ ~have_enabled_proxy
                      THEN [p2 EXCEPT !.slots = Drop(@, {key})] ELSE p2
            IN UnhookLoop(p3, stub, f, keys, i + 1, fp)

unhook_task(e, tk, stub, fp) ==
  IF stub \notin DOMAIN e.task_slots THEN e
  ELSE LET r == UnhookLoop([e EXCEPT !.task_slots = Drop(@, {stub})], stub,
                           tk[stub].new_func, SetToSeq(e.task_slots[stub]), 1, fp)
       IN [r EXCEPT !.stt = Drop(@, {stub})]

RECURSIVE RestoreLoop(_, _, _, _)
RestoreLoop(e, keys, i, fp) ==
  IF i > Len(keys) THEN e
  ELSE RestoreLoop(
         PatchResult(patch_slot(e, keys[i][1], keys[i][4], e.slots[keys[i]].orig_func, fp)),
         keys, i + 1, fp)

restore_all(e, fp) ==
  LET r == RestoreLoop(e, SetToSeq(DOMAIN e.slots), 1, fp)
      dead == {e.slots[k].hub_ptr: k \in DOMAIN e.slots} \ {0}
      hs == IF dead = {} THEN r.hubs
            ELSE LET c == collect_retired(r.hubs, FALSE, active_frames, now)
                 IN [h \in DOMAIN c |->
                       IF h \in dead THEN [c[h] EXCEPT !.st = "retired", !.ts = now] ELSE c[h]]
  IN [r EXCEPT !.hubs = hs, !.slots = EmptyMap, !.task_slots = EmptyMap, !.stt = EmptyMap]

\* ---- state.rs: a forked child skips the per-thread state ----
is_forked_child == install_pid > 0 /\ pid # install_pid

\* ---- hub.rs ACTIVE_STACK_FRAMES ----
\* a counter that is never taken down
mark_stack_frames_pop_keeps(af, count) == af

mark_stack_frames_pop(af, count) == IF af > count THEN af - count ELSE 0

\* ---- hub/stack.rs: frames of one thread, index 1 is the bottom ----
RECURSIVE prune_stale_frames(_, _)
prune_stale_frames(hs, current_sp) ==
  IF hs # <<>> /\ hs[Len(hs)].stack_sp <= current_sp
  THEN prune_stale_frames(SubSeq(hs, 1, Len(hs) - 1), current_sp)
  ELSE hs

\* the last index whose frame satisfies the test, 0 when none (rposition_by)
RPos(q, Test(_)) ==
  IF \E i \in 1..Len(q): Test(q[i])
  THEN CHOOSE i \in 1..Len(q): Test(q[i]) /\ \A j \in (i + 1)..Len(q): ~Test(q[j])
  ELSE 0

\* the recursion test looking at the hub stacks of all threads
OnStack_any_thread(hs, h) ==
  \E t \in Threads: \E i \in 1..Len(hub_stack[t]): hub_stack[t][i].hub_id = h

OnStack(hs, h) == \E i \in 1..Len(hs): hs[i].hub_id = h

\* result: the stack, the frame counter and the function the trampoline calls
\* thread_state.rs FixedStack::push: a full stack takes nothing
push_unbounded(st, value, N) == [ok |-> TRUE, st |-> Append(st, value)]

push(st, value, N) ==
  IF Len(st) >= N THEN [ok |-> FALSE, st |-> st] ELSE [ok |-> TRUE, st |-> Append(st, value)]

hub_push_stack(hs, af, h, return_addr, current_sp) ==
  LET hub == hubs[h]
      st == prune_stale_frames(hs, current_sp)
      af1 == mark_stack_frames_pop(af, Len(hs) - Len(st))
      next == first_enabled(hub)
      pushed == push(st, [hub_id |-> h, head_ptr |-> Len(hub.proxies),
                          orig_addr |-> hub.orig_addr, first_proxy |-> next[2],
                          return_addr |-> return_addr, stack_sp |-> current_sp],
                     HUB_STACK_CAP)
  IN IF is_forked_child THEN [hs |-> hs, af |-> af, next |-> hub.orig_addr]
     ELSE IF OnStack(st, h) THEN [hs |-> st, af |-> af1, next |-> hub.orig_addr]
     ELSE IF next = hub.orig_addr THEN [hs |-> st, af |-> af1, next |-> next]
     ELSE IF ~pushed.ok THEN [hs |-> st, af |-> af1, next |-> hub.orig_addr]
     ELSE [hs |-> pushed.st, af |-> af1 + 1, next |-> next]

hub_pop_stack(hs, af, h, current_sp) ==
  LET st == prune_stale_frames(hs, current_sp)
      af1 == mark_stack_frames_pop(af, Len(hs) - Len(st))
      i == RPos(st, LAMBDA fr: fr.hub_id = h)
  IN IF is_forked_child THEN [hs |-> hs, af |-> af]
     ELSE IF i = 0 THEN [hs |-> st, af |-> af1]
     ELSE [hs |-> RemoveAt(st, i), af |-> mark_stack_frames_pop(af1, 1)]

pop_stack_by_return_address(hs, af, return_addr) ==
  LET i == RPos(hs, LAMBDA fr: fr.return_addr = return_addr)
  IN IF is_forked_child \/ i = 0 THEN [hs |-> hs, af |-> af]
     ELSE [hs |-> RemoveAt(hs, i), af |-> mark_stack_frames_pop(af, 1)]

hub_proxy_leave(hs, af, f) ==
  LET i == RPos(hs, LAMBDA fr: fr.first_proxy = f)
  IN IF is_forked_child \/ i = 0 THEN [hs |-> hs, af |-> af]
     ELSE [hs |-> RemoveAt(hs, i), af |-> mark_stack_frames_pop(af, 1)]

\* the answer of one frame: the next enabled node after func in the chain the
\* frame captured, the frame's orig_addr at the tail, "none" when func is not in it
FramePrev(fr, f) ==
  LET hub == hubs[fr.hub_id]
      at == {i \in 1..fr.head_ptr: hub.proxies[i].func = f}
  IN IF at = {} THEN <<"none", 0>>
     ELSE LET j == EnabledFrom(hub, (CHOOSE i \in at: TRUE) - 1)
          IN IF j = 0 THEN fr.orig_addr ELSE ProxyAddr(hub.proxies[j].func)

\* a search that looks at the top frame only
PrevFrom_top_only(hs, i, f) ==
  IF i = 0 \/ FramePrev(hs[i], f)[1] = "none" THEN NULL ELSE FramePrev(hs[i], f)

RECURSIVE PrevFrom(_, _, _)
PrevFrom(hs, i, f) ==
  IF i = 0 THEN NULL
  ELSE IF FramePrev(hs[i], f)[1] = "none" THEN PrevFrom(hs, i - 1, f)
  ELSE FramePrev(hs[i], f)

get_prev_func(hs, f) == IF is_forked_child THEN NULL ELSE PrevFrom(hs, Len(hs), f)

\* a frame whose hub was destroyed: walking its chain reads freed memory
DanglingFrame(hs) == \E i \in 1..Len(hs): hubs[hs[i].hub_id].st = "freed"

\* what a use of freed memory does: the process dies, or the stale bytes are read
UseAfterFree == {"crash", "stale"}

\* ---- lifecycle/proxy.rs ----
proxy_enter(ps, f, current_sp) ==
  LET st == prune_stale_frames(ps, current_sp)
      pushed == push(st, [func |-> f, stack_sp |-> current_sp], PROXY_STACK_CAP)
  IN IF is_forked_child THEN [ps |-> ps, entered |-> FALSE]
     ELSE IF \E i \in 1..Len(st): st[i].func = f THEN [ps |-> st, entered |-> FALSE]
     ELSE [ps |-> pushed.st, entered |-> pushed.ok]

proxy_leave(ps, f, current_sp) ==
  LET st == prune_stale_frames(ps, current_sp)
      i == RPos(st, LAMBDA fr: fr.func = f)
  IN IF is_forked_child THEN ps
     ELSE IF i = 0 THEN st ELSE RemoveAt(st, i)

\* ---- lifecycle/process.rs ----
ensure_process_context(e, fp) ==
  IF e.ppid = pid THEN e
  ELSE IF e.ppid = 0 THEN [e EXCEPT !.ppid = pid]
  ELSE LET r == restore_all(e, fp)
       IN [r EXCEPT !.known = {}, !.req = FALSE, !.mon = FALSE, !.ppid = pid,
                    !.code = e.code,
                    !.hubs = collect_retired(@, TRUE, active_frames, now)]

\* ---- the machine stack of a thread and the code that runs on it ----
\* a trampoline waiting for the function it called, or a proxy at step pc
TFrame(h, next) == [k |-> "T", h |-> h, f |-> 0, next |-> next, pc |-> 0,
                    entered |-> FALSE, prev |-> NULL]
PFrame(f) == [k |-> "P", h |-> 0, f |-> f, next |-> NULL, pc |-> 0,
              entered |-> FALSE, prev |-> NULL]

\* what a proxy does inside with_prev_func: "prev" calls the previous function,
\* "again" calls the hooked symbol through the call site's slot
Body(f) == IF f = NumFuncs THEN <<"again", "again", "prev">> ELSE <<"prev">>

Thread(t, ub) ==
  [cs |-> cstack[t], hs |-> hub_stack[t], ps |-> proxy_stack[t], af |-> active_frames,
   tr |-> trace[t], crashed |-> FALSE, ovf |-> FALSE, ub |-> ub]

\* the address a call returns to: in the program, or in a proxy after a step
ReturnAddr(cs) ==
  IF cs = <<>> THEN <<"ret", 0>> ELSE <<"ret", 8 * cs[Len(cs)].f + cs[Len(cs)].pc>>

\* transfer of control to an address (hub/trampoline.rs: push_stack, call, pop_stack)
RECURSIVE CallAddr(_, _)
CallAddr(T, addr) ==
  IF T.crashed \/ T.ovf THEN T
  ELSE IF addr[1] = "orig" THEN [T EXCEPT !.tr = Append(@, addr)]
  ELSE IF addr[1] = "null" THEN [T EXCEPT !.crashed = TRUE]
  ELSE IF Len(T.cs) >= MaxDepth THEN [T EXCEPT !.ovf = TRUE]
  ELSE IF addr[1] = "proxy" THEN [T EXCEPT !.cs = Append(@, PFrame(addr[2]))]
  ELSE IF hubs[addr[2]].st = "freed" /\ T.ub = "crash" THEN [T EXCEPT !.crashed = TRUE]
  ELSE LET r == hub_push_stack(T.hs, T.af, addr[2], ReturnAddr(T.cs),
                               MaxDepth - (Len(T.cs) + 1))
       IN CallAddr([T EXCEPT !.cs = Append(@, TFrame(addr[2], r.next)),
                             !.hs = r.hs, !.af = r.af], r.next)

Top(T) == T.cs[Len(T.cs)]
SetTop(T, fr) == [T EXCEPT !.cs[Len(T.cs)] = fr]
PopTop(T) == [T EXCEPT !.cs = SubSeq(@, 1, Len(@) - 1)]

\* with_prev_func up to the call of the closure
with_prev_func(T) ==
  LET f == Top(T).f
      sp == MaxDepth - Len(T.cs)
      pe == proxy_enter(T.ps, f, sp)
  IN IF DanglingFrame(T.hs) /\ T.ub = "crash" THEN [T EXCEPT !.crashed = TRUE]
     ELSE [SetTop(T, [Top(T) EXCEPT !.pc = 1, !.entered = pe.entered,
                                  !.prev = get_prev_func(T.hs, f)])
             EXCEPT !.ps = pe.ps, !.tr = Append(@, ProxyAddr(f))]

\* the drop of ProxyLeaveGuard, then the return to the caller
ProxyLeaveGuard(T) ==
  LET f == Top(T).f
      sp == MaxDepth - Len(T.cs)
      hl == hub_proxy_leave(T.hs, T.af, f)
  IN [PopTop(T) EXCEPT !.ps = IF Top(T).entered THEN proxy_leave(T.ps, f, sp) ELSE T.ps,
                       !.hs = hl.hs, !.af = hl.af]

ProxyOp(T, t) ==
  LET fr == Top(T)
      op == Body(fr.f)[fr.pc]
      T1 == SetTop(T, [fr EXCEPT !.pc = @ + 1])
  IN IF op = "prev"
     THEN IF fr.prev = NULL THEN T1 ELSE CallAddr(T1, fr.prev)
     ELSE IF loaded[site[t][1]] THEN CallAddr(T1, got[site[t][1]][site[t][2]])
          ELSE [T1 EXCEPT !.crashed = TRUE]

TrampoReturn(T) ==
  LET h == Top(T).h
      r == hub_pop_stack(T.hs, T.af, h, MaxDepth - Len(T.cs))
  IN IF hubs[h].st = "freed" /\ T.ub = "crash" THEN [T EXCEPT !.crashed = TRUE]
     ELSE [PopTop(T) EXCEPT !.hs = r.hs, !.af = r.af]

\* ---- the disturbances one behaviour may draw on ----
\* system-call failures with one clear(); loader events; the clock with clear()
Budgets ==
  { [faults |-> MaxFaults, env |-> 0, clears |-> 1, ticks |-> 0],
    [faults |-> 0, env |-> MaxEnv, clears |-> 0, ticks |-> 0],
    [faults |-> 0, env |-> 0, clears |-> MaxClear, ticks |-> MaxTicks] }

\* no pass of the several-slot kind is under way
NoPass ==
  [pc |-> "idle", nslots |-> [m \in Modules |-> 0], ntasks |-> 0, fail |-> <<0, 0, 0>>,
   err |-> "Ok", mode |-> "Automatic", done |-> {}, events |-> <<>>, ret |-> "Ok"]

\* ---- the initial state: nothing initialised, the first image loaded and unhooked ----
EngineInit ==
  /\ loaded = [m \in Modules |-> m = 1]
  /\ inst = [m \in Modules |-> IF m = 1 THEN 1 ELSE 0]
  /\ nsid = [m \in Modules |-> 0]
  /\ got = [m \in Modules |-> [s \in Syms |-> IF m = 1 THEN OrigOf(s) ELSE NULL]]
  /\ pid = 1 /\ now = 0 /\ crashed = FALSE
  /\ status = "Uninit" /\ mode = "Automatic" /\ process_id = 0 /\ install_pid = 0
  /\ next_stub = 1 /\ tasks = EmptyMap /\ task_order = <<>> /\ task_slots = EmptyMap
  /\ slots = EmptyMap /\ single_task_targets = EmptyMap /\ known_modules = {}
  /\ monitor_running = FALSE /\ refresh_requested = FALSE /\ ignore_callers = <<>>
  /\ hubs = <<>> /\ active_frames = 0
  /\ cstack = [t \in Threads |-> <<>>]
  /\ hub_stack = [t \in Threads |-> <<>>]
  /\ proxy_stack = [t \in Threads |-> <<>>]
  /\ site = [t \in Threads |-> <<0, 0>>]
  /\ trace = [t \in Threads |-> <<>>]
  /\ gone = {} /\ shared = {} /\ ret = "Ok"
  /\ inits_left = MaxInit
  /\ lk_readers = [th \in LockThreads |-> 0] /\ lk_writer = 0
  /\ lk_owner = [x \in {"refresh", "state"} |-> 0]
  /\ auto_installed = FALSE
  /\ lstack = [th \in LockThreads |-> <<>>]

\* every image is the library of the scenarios
NoProbe == [pc |-> "idle"]
\* GuardSlot::new, GUARD_BASE_SLOTS and an empty list of extra nodes
NewSlot ==
  [tid |-> 0, active |-> FALSE, depth |-> 0, last_signal |-> 0,
   env_stack |-> [i \in 1..GUARD_STACK_DEPTH_MAX |-> 0]]
NoGuard ==
  [slots |-> [i \in 1..BaseSlots |-> NewSlot], calls |-> [t \in Threads |-> <<>>],
   last |-> [kind |-> "none"]]

SideInit ==
  pathname = [m \in Modules |-> HookTestPath] /\ probe = NoProbe /\ guard = NoGuard

Init ==
  /\ EngineInit /\ pass = NoPass /\ SideInit
  /\ \E b \in Budgets:
       /\ faults = b.faults /\ env_left = b.env
       /\ clears_left = b.clears /\ ticks_left = b.ticks

\* ---- how an API call commits the state its operations produced ----
FaultPlans == 0..(2 * NumModules * MaxStub)

Feasible(r, fp) == ~r.ovf /\ (fp = 0 \/ (faults > 0 /\ fp <= r.n))

\* a hub's address is in use while a slot word, a SlotEntry, another hub or a
\* thread's frame holds it; a destroyed hub whose address nothing holds is forgotten
Referenced(r, hs, h) ==
  \/ \E m \in Modules, s \in Syms: r.got[m][s] = TrampoOf(h)
  \/ \E k \in DOMAIN r.slots: r.slots[k].orig_func = TrampoOf(h) \/ r.slots[k].hub_ptr = h
  \/ \E x \in DOMAIN hs: hs[x].orig_addr = TrampoOf(h)
  \/ \E t \in Threads:
        \/ \E i \in 1..Len(cstack[t]):
              \/ cstack[t][i].h = h
              \/ cstack[t][i].next = TrampoOf(h)
              \/ cstack[t][i].prev = TrampoOf(h)
        \/ \E i \in 1..Len(hub_stack[t]):
              \/ hub_stack[t][i].hub_id = h
              \/ hub_stack[t][i].orig_addr = TrampoOf(h)

RECURSIVE Forget(_, _)
Forget(r, hs) ==
  IF hs # <<>> /\ hs[Len(hs)].st = "freed" /\ ~Referenced(r, hs, Len(hs))
  THEN Forget(r, SubSeq(hs, 1, Len(hs) - 1))
  ELSE hs

Commit(r, fp) ==
  /\ got' = r.got /\ slots' = r.slots /\ task_slots' = r.task_slots
  /\ hubs' = Forget(r, r.hubs)
  /\ single_task_targets' = r.stt /\ known_modules' = r.known
  /\ monitor_running' = r.mon /\ refresh_requested' = r.req /\ process_id' = r.ppid
  /\ ignore_callers' = r.ign
  /\ faults' = IF fp = 0 THEN faults ELSE faults - 1

\* a step of the engine or the loader: a thread that is not in a call forgets its last one
Calm ==
  /\ trace' = [t \in Threads |-> IF cstack[t] = <<>> THEN <<>> ELSE trace[t]]
  /\ site' = [t \in Threads |-> IF cstack[t] = <<>> THEN <<0, 0>> ELSE site[t]]

Settle == Calm /\ UNCHANGED <<lockVars, pass, sideVars>>

Quiet ==
  /\ Settle
  /\ UNCHANGED <<loaded, inst, nsid, pid, now, crashed, active_frames, cstack, hub_stack,
                 proxy_stack, env_left, ticks_left, inits_left>>

\* ---- lifecycle/entry_init.rs ----
init(md) ==
  /\ ~crashed /\ status = "Uninit" /\ inits_left > 0
  /\ inits_left' = inits_left - 1
  /\ status' = "Ok" /\ mode' = md /\ process_id' = pid /\ install_pid' = pid
  /\ monitor_running' = (md = "Automatic")
  /\ ret' = "Ok" /\ Settle
  /\ UNCHANGED <<envVars, ignore_callers, next_stub, tasks, task_order, task_slots, slots,
                 single_task_targets, known_modules, refresh_requested, hubVars,
                 cstack, hub_stack, proxy_stack, gone, shared, env_left, clears_left,
                 ticks_left>>

\* ---- lifecycle/task_ops.rs ----
add_task(task, fp) ==
  /\ ~crashed /\ status = "Ok" /\ next_stub <= MaxStub
  /\ LET stub == next_stub
         tk == Put(tasks, stub, task)
         order == Append(task_order, stub)
         e == ensure_process_context(Work, fp)
         r == IF mode = "Manual" THEN e
              ELSE [refresh_internal(e, tk, <<stub>>, FALSE, fp)
                      EXCEPT !.mon = TRUE, !.req = TRUE]
     IN /\ Feasible(r, fp)
        /\ Commit(r, fp)
        /\ next_stub' = stub + 1 /\ tasks' = tk /\ task_order' = order
        /\ gone' = gone \ {task.new_func}
        /\ ret' = "Ok"
  /\ UNCHANGED <<status, mode, install_pid, shared, clears_left>>
  /\ Quiet

\* ---- lifecycle/entry_hook.rs ----
hook_single(s, f, fp) ==
  add_task([type |-> "Single", caller |-> HookTestSo, sym |-> s, new_func |-> f], fp)

hook_all(s, f, fp) ==
  add_task([type |-> "All", caller |-> <<>>, sym |-> s, new_func |-> f], fp)

unhook(stub, fp) ==
  /\ ~crashed /\ status = "Ok"
  /\ LET e == ensure_process_context(Work, fp)
         known == stub \in DOMAIN tasks
         u == IF known THEN unhook_task(e, tasks, stub, fp) ELSE e
         r == [u EXCEPT !.task_slots = Drop(@, {stub})]
         tk == Drop(tasks, {stub})
         f == IF known THEN tasks[stub].new_func ELSE 0
         last == known /\ r.code = "Ok" /\ ~\E x \in DOMAIN tk: tk[x].new_func = f
         twin == known /\ r.code = "Ok" /\
                 \E x \in DOMAIN tk, k \in DOMAIN slots:
                    /\ tk[x].new_func = f
                    /\ InSeq(slots[k].task_chain, stub) /\ InSeq(slots[k].task_chain, x)
     IN /\ Feasible(r, fp)
        /\ Commit(r, fp)
        /\ tasks' = tk /\ task_order' = SeqWithout(task_order, stub)
        /\ gone' = IF last THEN gone \cup {f} ELSE gone
        /\ shared' = IF twin THEN shared \cup {f} ELSE IF last THEN shared \ {f} ELSE shared
        /\ ret' = IF known THEN r.code ELSE "InvalidArg"
  /\ UNCHANGED <<status, mode, install_pid, next_stub, clears_left>>
  /\ Quiet

refresh(fp) ==
  /\ ~crashed /\ status = "Ok"
  /\ LET r == refresh_internal(ensure_process_context(Work, fp), tasks, task_order,
                               FALSE, fp)
     IN /\ Feasible(r, fp)
        /\ Commit(r, fp)
        /\ ret' = r.code
  /\ UNCHANGED <<status, mode, install_pid, next_stub, tasks, task_order, gone, shared,
                 clears_left>>
  /\ Quiet

\* ---- lifecycle/entry_control.rs ----
clear(fp) ==
  /\ ~crashed /\ clears_left > 0
  /\ clears_left' = clears_left - 1
  /\ LET a == restore_all(Work, fp)
         r == [a EXCEPT !.known = {}, !.req = FALSE, !.mon = FALSE, !.ppid = 0,
                        !.ign = <<>>,
                        !.hubs = collect_retired(@, TRUE, active_frames, now)]
     IN /\ Feasible(r, fp)
        /\ Commit(r, fp)
  /\ status' = "Uninit" /\ mode' = "Automatic" /\ next_stub' = 1
  /\ tasks' = EmptyMap /\ task_order' = <<>>
  /\ gone' = {} /\ shared' = {}
  /\ ret' = "Ok"
  /\ UNCHANGED install_pid
  /\ Quiet

\* ---- lifecycle/monitor/poll.rs: the monitor thread serves a refresh request ----
monitor_loop(fp) ==
  /\ ~crashed /\ monitor_running /\ refresh_requested /\ process_id = pid
  /\ LET r == refresh_internal([Work EXCEPT !.req = FALSE], tasks, task_order, TRUE, fp)
     IN /\ Feasible(r, fp)
        /\ Commit(r, fp)
  /\ ret' = "Ok"
  /\ UNCHANGED <<status, mode, install_pid, next_stub, tasks, task_order, gone, shared,
                 clears_left>>
  /\ Quiet

\* ---- the process around the engine ----
InCall(m) == \E t \in Threads: cstack[t] # <<>> /\ site[t][1] = m

\* lifecycle/monitor/proxies.rs: the dlopen observer asks for a refresh
dlopen(m) ==
  /\ ~crashed /\ ~loaded[m] /\ inst[m] < MaxInst /\ env_left > 0
  /\ env_left' = env_left - 1
  /\ loaded' = [loaded EXCEPT ![m] = TRUE]
  /\ inst' = [inst EXCEPT ![m] = @ + 1]
  /\ nsid' = [nsid EXCEPT ![m] = 0]
  /\ got' = [got EXCEPT ![m] = [s \in Syms |-> OrigOf(s)]]
  /\ refresh_requested' = (refresh_requested \/ (monitor_running /\ process_id = pid))
  /\ ret' = "Ok" /\ Settle
  /\ UNCHANGED <<pid, now, faults, crashed, status, mode, process_id, install_pid,
                 ignore_callers, next_stub, tasks, task_order, task_slots, slots, single_task_targets,
                 known_modules, monitor_running, hubVars, cstack, hub_stack,
                 proxy_stack, gone, shared, clears_left, ticks_left, inits_left>>

\* the dlclose observer clears known_modules and asks for a full refresh
dlclose(m) ==
  /\ ~crashed /\ loaded[m] /\ ~InCall(m) /\ env_left > 0
  /\ env_left' = env_left - 1
  /\ loaded' = [loaded EXCEPT ![m] = FALSE]
  /\ got' = [got EXCEPT ![m] = [s \in Syms |-> NULL]]
  /\ IF monitor_running /\ process_id = pid
     THEN known_modules' = {} /\ refresh_requested' = TRUE
     ELSE UNCHANGED <<known_modules, refresh_requested>>
  /\ ret' = "Ok" /\ Settle
  /\ UNCHANGED <<inst, nsid, pid, now, faults, crashed, status, mode, process_id,
                 ignore_callers,
                 install_pid, next_stub, tasks, task_order, task_slots, slots,
                 single_task_targets, monitor_running, hubVars, cstack, hub_stack,
                 proxy_stack, gone, shared, clears_left, ticks_left, inits_left>>

\* refresh/ops/module_scan.rs: a hint refines a loaded image's namespace from 0
refine_namespace(m) ==
  /\ ~crashed /\ loaded[m] /\ nsid[m] = 0 /\ env_left > 0
  /\ env_left' = env_left - 1
  /\ nsid' = [nsid EXCEPT ![m] = 1]
  /\ ret' = "Ok" /\ Settle
  /\ UNCHANGED <<loaded, inst, got, pid, now, faults, crashed, coreVars, hubVars,
                 cstack, hub_stack, proxy_stack, gone, shared, clears_left, ticks_left, inits_left>>

\* fork: the model follows the child, which has one thread and a copy of the memory
fork ==
  /\ ~crashed /\ pid < MaxPid /\ env_left > 0
  /\ env_left' = env_left - 1
  /\ pid' = pid + 1
  /\ cstack' = [t \in Threads |-> <<>>]
  /\ hub_stack' = [t \in Threads |-> <<>>]
  /\ proxy_stack' = [t \in Threads |-> <<>>]
  /\ site' = [t \in Threads |-> <<0, 0>>]
  /\ trace' = [t \in Threads |-> <<>>]
  /\ ret' = "Ok"
  /\ UNCHANGED <<loaded, inst, nsid, got, now, faults, crashed, coreVars, hubVars,
                 gone, shared, clears_left, ticks_left, inits_left, lockVars, pass, sideVars>>

\* the clock; only the age of a retired hub is ever read, so it runs while one exists
tick ==
  /\ ~crashed /\ ticks_left > 0 /\ \E h \in DOMAIN hubs: hubs[h].st = "retired"
  /\ ticks_left' = ticks_left - 1
  /\ now' = now + TickSec
  /\ ret' = "Ok" /\ Settle
  /\ UNCHANGED <<loaded, inst, nsid, got, pid, faults, crashed, coreVars, hubVars,
                 cstack, hub_stack, proxy_stack, gone, shared, env_left, clears_left, inits_left>>

\* ---- a thread of the host program ----
Land(t, T) ==
  /\ ~T.ovf
  /\ cstack' = [cstack EXCEPT ![t] = T.cs]
  /\ hub_stack' = [hub_stack EXCEPT ![t] = T.hs]
  /\ proxy_stack' = [proxy_stack EXCEPT ![t] = T.ps]
  /\ trace' = [trace EXCEPT ![t] = T.tr]
  /\ active_frames' = T.af
  /\ crashed' = T.crashed
  /\ ret' = "Ok"
  /\ UNCHANGED <<loaded, inst, nsid, got, pid, now, faults, coreVars, hubs,
                 gone, shared, env_left, clears_left, ticks_left, inits_left, lockVars, pass, sideVars>>

\* the program calls the symbol through the module's slot
call(t, m, s, ub) ==
  /\ ~crashed /\ cstack[t] = <<>> /\ loaded[m]
  /\ site' = [site EXCEPT ![t] = <<m, s>>]
  /\ Land(t, CallAddr([Thread(t, ub) EXCEPT !.tr = <<>>], got[m][s]))

\* the proxy on top of the stack runs its next step
proxy_step(t, ub) ==
  /\ ~crashed /\ cstack[t] # <<>> /\ Top(Thread(t, ub)).k = "P"
  /\ LET T == Thread(t, ub)
         fr == Top(T)
     IN Land(t, IF fr.pc = 0 THEN with_prev_func(T)
                ELSE IF fr.pc <= Len(Body(fr.f)) THEN ProxyOp(T, t)
                ELSE ProxyLeaveGuard(T))
  /\ UNCHANGED site

\* the function a trampoline called has returned
trampo_return(t, ub) ==
  /\ ~crashed /\ cstack[t] # <<>> /\ Top(Thread(t, ub)).k = "T"
  /\ Land(t, TrampoReturn(Thread(t, ub)))
  /\ UNCHANGED site

Next ==
  \/ \E md \in {"Automatic", "Manual"}: init(md)
  \/ \E s \in Syms, f \in Funcs, fp \in FaultPlans: hook_single(s, f, fp)
  \/ \E s \in Syms, f \in Funcs, fp \in FaultPlans: hook_all(s, f, fp)
  \/ \E stub \in 1..MaxStub, fp \in FaultPlans: unhook(stub, fp)
  \/ \E fp \in FaultPlans: refresh(fp)
  \/ \E fp \in FaultPlans: clear(fp)
  \/ \E fp \in FaultPlans: monitor_loop(fp)
  \/ \E m \in Modules: dlopen(m)
  \/ \E m \in Modules: dlclose(m)
  \/ \E m \in Modules: refine_namespace(m)
  \/ fork
  \/ tick
  \/ \E t \in Main, m \in Modules, s \in Syms, ub \in UseAfterFree: call(t, m, s, ub)
  \/ \E t \in Main, ub \in UseAfterFree: proxy_step(t, ub)
  \/ \E t \in Main, ub \in UseAfterFree: trampo_return(t, ub)

Spec == Init /\ [][Next]_vars

\* ---- hooks installed and left in place, called by every thread at once ----
StressInit == Init /\ ticks_left = MaxTicks

StressNext ==
  \/ \E md \in {"Automatic", "Manual"}: init(md)
  \/ \E s \in Syms, f \in Funcs: hook_single(s, f, 0)
  \/ \E s \in Syms, f \in Funcs: hook_all(s, f, 0)
  \/ refresh(0)
  \/ \E t \in Threads, m \in Modules, s \in Syms, ub \in UseAfterFree: call(t, m, s, ub)
  \/ \E t \in Threads, ub \in UseAfterFree: proxy_step(t, ub)
  \/ \E t \in Threads, ub \in UseAfterFree: trampo_return(t, ub)

StressSpec == StressInit /\ [][StressNext]_vars

\* ======================= the properties =======================

\* the image a SlotKey names is the one loaded now
Live(k) == loaded[k[1]] /\ inst[k[1]] = k[2]

SlotWord(k) == got[k[1]][k[4]]

\* C1 as written: in every reachable state every SlotEntry with a non-empty
\* task_chain has a non-null hub and its slot word is that hub's trampoline.
C1_ChainImpliesTrampoline ==
  \A k \in DOMAIN slots:
    slots[k].task_chain # <<>> =>
      slots[k].hub_ptr # 0 /\ SlotWord(k) = TrampoOf(slots[k].hub_ptr)

\* C1 amended: the same, for every SlotEntry whose caller image is still the
\* loaded one (an entry outlives its image until the next refresh prunes it).
C1_LiveChainImpliesTrampoline ==
  \A k \in DOMAIN slots:
    (Live(k) /\ slots[k].task_chain # <<>>) =>
      slots[k].hub_ptr # 0 /\ SlotWord(k) = TrampoOf(slots[k].hub_ptr)

\* two stubs are chained on a slot of a loaded image after a system call failed
C1_Witness ==
  \E k \in DOMAIN slots:
    /\ Live(k) /\ Len(slots[k].task_chain) = 2
    /\ SlotWord(k) = TrampoOf(slots[k].hub_ptr)
    /\ faults < MaxFaults

\* the step is unhook(stub) returning Ok
UnhookOk(stub) ==
  /\ stub \in DOMAIN tasks /\ stub \notin DOMAIN tasks'
  /\ status = "Ok" /\ status' = "Ok" /\ ret' = "Ok"

\* after the step a SlotEntry with a non-empty chain tracks the slot of k and the
\* slot holds that entry's trampoline
OwnedAfter(k) ==
  \E k2 \in DOMAIN slots':
    /\ k2[1] = k[1] /\ k2[2] = k[2] /\ k2[4] = k[4]
    /\ slots'[k2].task_chain # <<>>
    /\ slots'[k2].hub_ptr # 0
    /\ got'[k[1]][k[4]] = TrampoOf(slots'[k2].hub_ptr)

\* C2: when unhook(stub) returns Ok, every slot of a loaded image the task was
\* installed in is still owned by another task or holds the orig_func its
\* SlotEntry captured.
C2_UnhookRestoresSlots ==
  [][\A stub \in DOMAIN tasks:
       (UnhookOk(stub) /\ stub \in DOMAIN task_slots) =>
         \A k \in task_slots[stub] \cap DOMAIN slots:
           Live(k) => (OwnedAfter(k) \/ got'[k[1]][k[4]] = slots[k].orig_func)]_vars

\* C3: a call that enters after unhook returned Ok for the last stub of a proxy
\* is not dispatched to that proxy.
C3_NoDispatchAfterUnhook ==
  [][\A t \in Threads:
       (cstack[t] = <<>> /\ cstack'[t] # <<>>) =>
         \A i \in 1..Len(cstack'[t]):
           cstack'[t][i].k = "P" => cstack'[t][i].f \notin gone]_vars

\* the step is clear() and no system call failed in it
ClearStep == clears_left' < clears_left /\ faults' = faults

\* C4: after clear() every slot of a loaded image holds the value it had before
\* the engine first wrote it, and a clear() of a cleared engine changes no slot.
C4_ClearRestoresAll ==
  [][ClearStep =>
       /\ \A m \in Modules, s \in Syms: loaded[m] => got'[m][s] = OrigOf(s)
       /\ (status = "Uninit" => got' = got)]_vars

\* C5: while a stub that hook_single returned for F is registered, no second
\* task with new_func F is registered.
C5_NoSecondTaskForProxy ==
  \A a \in DOMAIN tasks, b \in DOMAIN tasks:
    (a < b /\ tasks[a].type = "Single") => tasks[a].new_func # tasks[b].new_func

\* C6: with two stubs of one proxy applied to one slot, unhooking the first
\* leaves the slot on the trampoline with the proxy enabled; unhooking the
\* second puts orig_func back into the slot (in the process that installed them).
C6_SharedProxyUnhook ==
  [][\A stub \in DOMAIN tasks:
       (UnhookOk(stub) /\ process_id = pid) =>
         /\ \A x \in DOMAIN tasks' , k \in DOMAIN slots:
              ( /\ tasks[x].new_func = tasks[stub].new_func
                /\ InSeq(slots[k].task_chain, stub) /\ InSeq(slots[k].task_chain, x)
                /\ Live(k) ) =>
                  /\ k \in DOMAIN slots' /\ slots'[k].hub_ptr # 0
                  /\ got'[k[1]][k[4]] = TrampoOf(slots'[k].hub_ptr)
                  /\ first_enabled(hubs'[slots'[k].hub_ptr]) = ProxyAddr(tasks[stub].new_func)
         /\ ( /\ tasks[stub].new_func \in shared
              /\ ~\E x \in DOMAIN tasks': tasks[x].new_func = tasks[stub].new_func
              /\ stub \in DOMAIN task_slots ) =>
                \A k \in task_slots[stub] \cap DOMAIN slots:
                  Live(k) => got'[k[1]][k[4]] = slots[k].orig_func]_vars

\* a proxy that only calls its previous function
Plain(a) == a[1] = "proxy" /\ Body(a[2]) = <<"prev">>

\* C7: a finished call that ran only proxies calling their previous function
\* ran no proxy twice and ended in exactly one call of the original function.
C7_ChainRunsOnce ==
  \A t \in Threads:
    ( /\ cstack[t] = <<>> /\ trace[t] # <<>>
      /\ \A i \in 1..Len(trace[t]): trace[t][i][1] = "proxy" => Plain(trace[t][i]) ) =>
        /\ \A i \in 1..Len(trace[t]), j \in 1..Len(trace[t]):
             (i < j /\ trace[t][i][1] = "proxy") => trace[t][i] # trace[t][j]
        /\ trace[t][Len(trace[t])][1] = "orig"
        /\ \A i \in 1..(Len(trace[t]) - 1): trace[t][i][1] = "proxy"

\* the trampoline frames of hub h on a thread's stack that dispatched a proxy
Dispatches(t, h) ==
  {i \in 1..Len(cstack[t]):
     cstack[t][i].k = "T" /\ cstack[t][i].h = h /\ cstack[t][i].next[1] = "proxy"}

\* C8: while a thread is inside a dispatch of a hub, a call it makes through the
\* same hub goes to orig_addr: no hub has two dispatches on one thread's stack.
C8_ReentryReachesOrig ==
  \A t \in Threads, h \in DOMAIN hubs: Cardinality(Dispatches(t, h)) <= 1

\* the step destroys hub h
Destroyed(h) ==
  /\ hubs[h].st # "freed"
  /\ h \notin DOMAIN hubs' \/ hubs'[h].st = "freed"

\* the hub is retired, its delay has passed and no frame is active
Reclaimable(h) ==
  /\ hubs[h].st = "retired"
  /\ active_frames = 0
  /\ now - hubs[h].ts >= HUB_DESTROY_DELAY_SEC

\* the step rebuilds the engine's state in a forked child
ForkRebuild == process_id # 0 /\ process_id # pid /\ process_id' = pid

\* C9 as written: a hub is destroyed only when it is retired for 10 s with the
\* frame counter at zero, or by clear().
C9_DestroyOnlyExpiredOrClear ==
  [][\A h \in DOMAIN hubs:
       Destroyed(h) => (Reclaimable(h) \/ clears_left' < clears_left)]_vars

\* C9 amended: ... or by clear(), or by the first API call in a forked child.
C9_DestroyOnlyExpiredOrForced ==
  [][\A h \in DOMAIN hubs:
       Destroyed(h) =>
         (Reclaimable(h) \/ clears_left' < clears_left \/ ForkRebuild)]_vars

\* a retired hub aged 10 s was destroyed with no clear() and no fork
C9_Witness ==
  /\ now >= HUB_DESTROY_DELAY_SEC /\ hubs = <<>> /\ status = "Ok"
  /\ clears_left = MaxClear /\ process_id = pid /\ next_stub > 1

\* the image was loaded by a dlopen after the engine's construction
Dlopened(m) == loaded[m] /\ (m # 1 \/ inst[m] > 1)

\* a call through the slot of (m, s) is dispatched by a live hub that has the
\* proxy f enabled
HookedBy(m, s, f) ==
  \E h \in DOMAIN hubs:
    /\ got[m][s] = TrampoOf(h) /\ hubs[h].st = "live"
    /\ \E i \in 1..Len(hubs[h].proxies):
          hubs[h].proxies[i].func = f /\ hubs[h].proxies[i].enabled

\* C15: in Automatic mode, in the process that ran init, once the monitor has
\* served the refresh request the dlopen observer made, every image loaded by a
\* dlopen has the slots of every task that matches it hooked, whatever hook,
\* unhook and refresh calls ran in between.
C15_DlopenedModuleHooked ==
  ( /\ status = "Ok" /\ mode = "Automatic" /\ monitor_running
    /\ process_id = pid /\ install_pid = pid /\ ~refresh_requested ) =>
      \A stub \in DOMAIN tasks, m \in Modules:
        ( /\ Dlopened(m)
          /\ is_task_match_caller(tasks[stub], m)
          /\ ~is_single_task_bound_to_other_module(Work, stub, tasks[stub], m) ) =>
            HookedBy(m, tasks[stub].sym, tasks[stub].new_func)

\* C16: with hooks left in place, every call a thread makes through a hooked
\* slot is dispatched to a proxy, whatever the other threads are doing.
C16_EveryCallDispatched ==
  [][\A t \in Threads:
       ( /\ cstack[t] = <<>> /\ cstack'[t] # <<>>
         /\ \E f \in Funcs: HookedBy(site'[t][1], site'[t][2], f) ) =>
           Len(cstack'[t]) >= 2 /\ cstack'[t][2].k = "P"]_vars

\* two threads are inside a dispatch of the same hub at once
C16_Witness ==
  \E t1 \in Threads, t2 \in Threads, h \in DOMAIN hubs:
    t1 # t2 /\ Dispatches(t1, h) # {} /\ Dispatches(t2, h) # {}

\* every registered task is installed in every matching slot of the loaded modules
\* and a call from this process is not bypassed
AllInstalled ==
  \A stub \in DOMAIN tasks, m \in Modules:
    ( /\ loaded[m] /\ is_task_match_caller(tasks[stub], m)
      /\ ~is_single_task_bound_to_other_module(Work, stub, tasks[stub], m) ) =>
        HookedBy(m, tasks[stub].sym, tasks[stub].new_func) /\ ~is_forked_child

\* C17: once hook_* has returned a stub and a following refresh() has completed
\* with Ok, a call through a matching slot of a loaded module reaches a
\* trampoline whose chain holds the installed proxy.
C17_HookedAfterRefresh ==
  [][(ret' = "Ok" /\ ~AllInstalled' /\ status = "Ok") => ~\E fp \in FaultPlans: refresh(fp)]_vars

\* C18: the chain of a call already inside a trampoline is fixed at the push of
\* its frame: no step of another thread changes what get_prev returns to it.
C18_ChainFixedAtPush ==
  [][\A t \in Threads:
       (cstack[t] # <<>> /\ cstack'[t] = cstack[t] /\ hub_stack'[t] = hub_stack[t]) =>
          \A f \in Funcs:
             get_prev_func(hub_stack[t], f)' = get_prev_func(hub_stack[t], f)]_vars

\* the matching (task, module) pairs the engine has not installed
NotInstalled(stub, m) ==
  /\ stub \in DOMAIN tasks /\ loaded[m] /\ is_task_match_caller(tasks[stub], m)
  /\ LET key == SlotKey(m, tasks[stub].sym)
     IN key \in DOMAIN slots /\ ~InSeq(slots[key].task_chain, stub)

\* the live hubs no slot entry points to
Orphans ==
  {h \in DOMAIN hubs: hubs[h].st = "live" /\ ~\E k \in DOMAIN slots: slots[k].hub_ptr = h}

\* the slot has no hub, so that installing a task in it calls create_hub
NoHub(m, s) == SlotKey(m, s) \notin DOMAIN slots \/ slots[SlotKey(m, s)].hub_ptr = 0

\* no task_slots entry for the pair, and in the slot's hub (one that a later task
\* of the pass created) no proxy of the task but through a task of the chain
Unrecorded(stub, m) ==
  LET key == SlotKey(m, tasks[stub].sym)
      h == slots[key].hub_ptr
  IN /\ ~(stub \in DOMAIN task_slots /\ key \in task_slots[stub])
     /\ h # 0 =>
          \A i \in 1..Len(hubs[h].proxies):
             (hubs[h].proxies[i].func = tasks[stub].new_func
                /\ hubs[h].proxies[i].enabled) =>
               \E x \in DOMAIN tasks:
                  /\ tasks[x].new_func = tasks[stub].new_func
                  /\ InSeq(slots[key].task_chain, x)

AttachedTo(stub) ==
  {KeyModule(k): k \in {x \in DOMAIN slots: InSeq(slots[x].task_chain, stub)}}

\* C22: an entry point that finds the process changed restores every known
\* slot, empties the task map and the slot maps and resets the monitor, so a
\* hook registered before the fork is not installed again in the child.
C22_ForkDropsHooks ==
  [][(process_id \notin {0, pid} /\ process_id' = pid) =>
        /\ DOMAIN tasks \cap DOMAIN tasks' = {}
        /\ \A k \in DOMAIN slots', stub \in DOMAIN tasks:
             ~InSeq(slots'[k].task_chain, stub)]_vars

\* ---- the loader at work: images of one path come and go, no faults ----
BindInit ==
  /\ EngineInit /\ pass = NoPass /\ SideInit
  /\ faults = 0 /\ env_left = MaxReload /\ clears_left = 0 /\ ticks_left = 0

BindNext ==
  \/ \E md \in {"Automatic", "Manual"}: init(md)
  \/ \E s \in Syms, f \in Funcs: hook_single(s, f, 0)
  \/ refresh(0)
  \/ monitor_loop(0)
  \/ \E m \in Modules: dlopen(m)
  \/ \E m \in Modules: dlclose(m)
  \/ \E m \in Modules: refine_namespace(m)

BindSpec == BindInit /\ [][BindNext]_vars

Settled ==
  LET r == refresh_internal(ensure_process_context(Work, 0), tasks, task_order, FALSE, 0)
  IN /\ r.events = <<>>
     /\ r.slots = slots /\ r.got = got /\ r.task_slots = task_slots
     /\ \A h \in DOMAIN hubs: r.hubs[h].proxies = hubs[h].proxies

\* what refresh makes of the state that a refresh has left
Again(r1) ==
  refresh_internal(
    ensure_process_context([r1 EXCEPT !.hubs = Forget(r1, r1.hubs), !.n = 0, !.ok = TRUE,
                                      !.code = "Ok", !.ret = 0, !.events = <<>>], 0),
    tasks, task_order, FALSE, 0)

TwiceIsOnce ==
  LET r1 == refresh_internal(ensure_process_context(Work, 0), tasks, task_order, FALSE, 0)
      r2 == Again(r1)
  IN /\ r2.events = <<>>
     /\ r2.slots = r1.slots /\ r2.got = r1.got /\ r2.task_slots = r1.task_slots
     /\ \A h \in DOMAIN r2.hubs: r2.hubs[h].proxies = r1.hubs[h].proxies

\* C30: a refresh pass over a task and a slot whose chain already holds the
\* task's stub changes nothing, it emits no event, adds no chain entry and does
\* not raise the proxy's ref_count: after a refresh, a second refresh with the
\* same tasks and modules leaves slots, chains, ref_counts and GOT words as the
\* first one left them.
C30_RefreshTwiceIsOnce ==
  [][(ret' = "Ok" /\ refresh(0)) => TwiceIsOnce]_vars

\* refresh installed two tasks of Manual mode in the chain of one slot
C30_Witness ==
  /\ mode = "Manual" /\ ret = "Ok" /\ known_modules = module_keys
  /\ \E k \in DOMAIN slots: Len(slots[k].task_chain) = 2 /\ got[k[1]][k[4]] = TrampoOf(slots[k].hub_ptr)
  /\ Settled

\* ---- the stack operations of the first thread, called at any stack pointer ----
\* (a proxy may return without proxy_leave, a longjmp may skip a trampoline's
\* exit, the program may call the C entry points in any order)
Sps == 1..(MaxDepth - 1)
RetAddrs == {<<"ret", 0>>, <<"ret", 8 * NumFuncs + 2>>}

\* the return addresses of the frames an operation took off the hub stack (a hub
\* has at most one frame on a stack)
Removed(pre, post) ==
  LET out == SelectSeq(pre, LAMBDA fr: \A j \in 1..Len(post): post[j].hub_id # fr.hub_id)
  IN [i \in 1..Len(out) |-> out[i].return_addr]

StackLand(hs, ps, af, res) ==
  /\ ~crashed /\ status = "Ok"
  /\ hub_stack' = [hub_stack EXCEPT ![1] = hs]
  /\ proxy_stack' = [proxy_stack EXCEPT ![1] = ps]
  /\ active_frames' = af
  /\ trace' = [trace EXCEPT ![1] = res]
  /\ UNCHANGED <<envVars, coreVars, hubs, cstack, site, histVars, lockVars, pass,
                 sideVars>>

op_push_stack(h, ra, sp) ==
  /\ h \in DOMAIN hubs
  /\ LET r == hub_push_stack(hub_stack[1], active_frames, h, ra, sp)
     IN StackLand(r.hs, proxy_stack[1], r.af, <<r.next>>)

op_pop_stack(h, sp) ==
  /\ h \in DOMAIN hubs
  /\ LET r == hub_pop_stack(hub_stack[1], active_frames, h, sp)
     IN StackLand(r.hs, proxy_stack[1], r.af, Removed(hub_stack[1], r.hs))

op_pop_by_return_address(ra) ==
  LET r == pop_stack_by_return_address(hub_stack[1], active_frames, ra)
  IN StackLand(r.hs, proxy_stack[1], r.af, Removed(hub_stack[1], r.hs))

op_proxy_enter(f, sp) ==
  LET r == proxy_enter(proxy_stack[1], f, sp)
  IN StackLand(hub_stack[1], r.ps, active_frames,
               <<<<IF r.entered THEN "entered" ELSE "refused", f>>>>)

op_proxy_leave(f, sp) ==
  LET r == hub_proxy_leave(hub_stack[1], active_frames, f)
  IN StackLand(r.hs, proxy_leave(proxy_stack[1], f, sp), r.af,
               Removed(hub_stack[1], r.hs))

\* lifecycle/proxy.rs get_prev_func: the function is entered, then looked up
op_get_prev(f, sp) ==
  StackLand(hub_stack[1], proxy_enter(proxy_stack[1], f, sp).ps, active_frames,
            <<get_prev_func(hub_stack[1], f)>>)

StackInit == Init /\ faults = 0 /\ env_left = MaxEnv

StackNext ==
  \/ init("Automatic")
  \/ \E s \in Syms, f \in Funcs: hook_single(s, f, 0)
  \/ \E stub \in 1..MaxStub: unhook(stub, 0)
  \/ \E h \in 1..MaxHubs, ra \in RetAddrs, sp \in Sps: op_push_stack(h, ra, sp)
  \/ \E h \in 1..MaxHubs, sp \in Sps: op_pop_stack(h, sp)
  \/ \E ra \in RetAddrs: op_pop_by_return_address(ra)
  \/ \E f \in Funcs, sp \in Sps: op_proxy_enter(f, sp)
  \/ \E f \in Funcs, sp \in Sps: op_proxy_leave(f, sp)
  \/ \E f \in Funcs, sp \in Sps: op_get_prev(f, sp)

StackSpec == StackInit /\ [][StackNext]_vars

\* ---- a hub stack filled to its capacity ----
\* the state after k rounds of hook_single, a call through the new hub and unhook
\* inside that call, and one more hook_single: hubs 1..k are retired with a frame
\* each, nested one below the other, and hub k + 1 serves the slot
Nested(k) ==
  /\ loaded = [m \in Modules |-> m = 1]
  /\ inst = [m \in Modules |-> IF m = 1 THEN 1 ELSE 0]
  /\ nsid = [m \in Modules |-> 0]
  /\ got = [m \in Modules |-> [s \in Syms |-> IF m # 1 THEN NULL
                                              ELSE IF s = 1 THEN TrampoOf(k + 1)
                                              ELSE OrigOf(s)]]
  /\ pid = 1 /\ now = 0 /\ crashed = FALSE /\ faults = 0
  /\ status = "Ok" /\ mode = "Automatic" /\ process_id = 1 /\ install_pid = 1
  /\ next_stub = k + 2
  /\ tasks = Put(EmptyMap, k + 1, [type |-> "Single", caller |-> HookTestSo,
                                   sym |-> 1, new_func |-> 1])
  /\ task_order = <<k + 1>>
  /\ task_slots = Put(EmptyMap, k + 1, {SlotKey(1, 1)})
  /\ slots = Put(EmptyMap, SlotKey(1, 1),
                 [orig_func |-> OrigOf(1), task_chain |-> <<k + 1>>, hub_ptr |-> k + 1])
  /\ single_task_targets = Put(EmptyMap, k + 1, module_key(1))
  /\ known_modules = {module_key(1)}
  /\ monitor_running = TRUE /\ refresh_requested = TRUE /\ ignore_callers = <<>>
  /\ hubs = [h \in 1..(k + 1) |->
               [proxies |-> <<IF h <= k THEN [func |-> 1, ref_count |-> 0, enabled |-> FALSE]
                              ELSE NewNode(1)>>,
                orig_addr |-> OrigOf(1),
                st |-> IF h <= k THEN "retired" ELSE "live", ts |-> 0]]
  /\ active_frames = k
  /\ cstack = [t \in Threads |-> <<>>]
  /\ hub_stack = [t \in Threads |->
                    IF t # 1 THEN <<>>
                    ELSE [i \in 1..k |->
                            [hub_id |-> i, head_ptr |-> 1, orig_addr |-> OrigOf(1),
                             first_proxy |-> 1, return_addr |-> <<"ret", 0>>,
                             stack_sp |-> (k - i) + 2]]]
  /\ proxy_stack = [t \in Threads |-> <<>>]
  /\ site = [t \in Threads |-> <<0, 0>>]
  /\ trace = [t \in Threads |-> <<>>]
  /\ gone = {} /\ shared = {} /\ ret = "Ok"
  /\ env_left = MaxEnv /\ clears_left = 0 /\ ticks_left = 0 /\ inits_left = 0
  /\ lk_readers = [th \in LockThreads |-> 0] /\ lk_writer = 0
  /\ lk_owner = [x \in {"refresh", "state"} |-> 0]
  /\ auto_installed = FALSE
  /\ lstack = [th \in LockThreads |-> <<>>]
  /\ pass = NoPass /\ SideInit

FullInit == Nested(HUB_STACK_CAP)

\* the stack pointers at and around the top frame, the hub of the top frame and
\* the hub that serves the slot
FullSps == 1..3
FullHubs == {HUB_STACK_CAP, HUB_STACK_CAP + 1}

FullNext ==
  \/ \E ra \in RetAddrs, sp \in FullSps: op_push_stack(HUB_STACK_CAP + 1, ra, sp)
  \/ \E h \in FullHubs, sp \in FullSps: op_pop_stack(h, sp)
  \/ \E ra \in RetAddrs: op_pop_by_return_address(ra)
  \/ \E f \in Funcs, sp \in FullSps: op_proxy_enter(f, sp)
  \/ \E f \in Funcs, sp \in FullSps: op_proxy_leave(f, sp)
  \/ \E f \in Funcs, sp \in FullSps: op_get_prev(f, sp)

FullSpec == FullInit /\ [][FullNext]_vars

\* C26: a push onto a hub stack that holds its full HUB_STACK_CAP frames fails: no frame is
\* added, the frame counter is not raised and the trampoline is handed orig_addr.
C26_FullStackPushFails ==
  [][\A ra \in RetAddrs, sp \in FullSps:
       (/\ Len(hub_stack[1]) = HUB_STACK_CAP
        /\ \A i \in 1..Len(hub_stack[1]): hub_stack[1][i].stack_sp > sp
        /\ op_push_stack(HUB_STACK_CAP + 1, ra, sp)) =>
           /\ hub_stack'[1] = hub_stack[1]
           /\ active_frames' = active_frames
           /\ trace'[1] = <<hubs[HUB_STACK_CAP + 1].orig_addr>>]_vars

\* the hub that serves the slot has an enabled proxy and no frame, the stack is
\* full and the last push was answered with orig_addr
C26_Witness ==
  /\ Len(hub_stack[1]) = HUB_STACK_CAP /\ active_frames = HUB_STACK_CAP
  /\ Len(hubs) = HUB_STACK_CAP + 1 /\ AnyEnabled(hubs[HUB_STACK_CAP + 1])
  /\ ~OnStack(hub_stack[1], HUB_STACK_CAP + 1)
  /\ trace[1] = <<hubs[HUB_STACK_CAP + 1].orig_addr>>

\* no frame of the stack was captured at or below the stack pointer
Fresh(st, sp) == \A i \in 1..Len(st): st[i].stack_sp > sp

\* the frames captured above the stack pointer are all kept, in order, and at
\* most one frame captured at it is pushed on top of them
Kept(pre, post, sp) ==
  LET live == SelectSeq(pre, LAMBDA fr: fr.stack_sp > sp)
  IN \/ post = live
     \/ /\ Len(post) = Len(live) + 1 /\ SubSeq(post, 1, Len(live)) = live
        /\ post[Len(post)].stack_sp = sp

\* C23: every operation on the hub stack or the proxy stack first removes the
\* frames captured at or below the current stack pointer and no frame captured
\* above it, so a proxy that returned without proxy_leave is entered again.
C23_EveryOperationPrunes ==
  [][/\ \A h \in 1..MaxHubs, ra \in RetAddrs, sp \in Sps:
          op_push_stack(h, ra, sp) => Kept(hub_stack[1], hub_stack'[1], sp)
     /\ \A h \in 1..MaxHubs, sp \in Sps:
          op_pop_stack(h, sp) => Fresh(hub_stack'[1], sp)
     /\ \A f \in Funcs, sp \in Sps:
          op_proxy_enter(f, sp) =>
             /\ Kept(proxy_stack[1], proxy_stack'[1], sp)
             /\ (\A i \in 1..Len(proxy_stack[1]):
                    proxy_stack[1][i].func = f => proxy_stack[1][i].stack_sp <= sp) =>
                  /\ proxy_stack'[1] # <<>>
                  /\ proxy_stack'[1][Len(proxy_stack'[1])] = [func |-> f, stack_sp |-> sp]
     /\ \A f \in Funcs, sp \in Sps:
          op_proxy_leave(f, sp) =>
             Fresh(proxy_stack'[1], sp) /\ Fresh(hub_stack'[1], sp)]_vars

\* the frames whose captured chain holds a node of the function
Holding(hs, f) ==
  {i \in 1..Len(hs):
     \E j \in 1..hs[i].head_ptr: hubs[hs[i].hub_id].proxies[j].func = f}

\* what get_prev owes its caller: from the topmost frame that holds the function,
\* the nearest enabled node after it, else that frame's orig_addr; null when no
\* frame holds it (the head of a chain is the last node of the sequence)
PrevOwed(hs, f) ==
  IF Holding(hs, f) = {} THEN NULL
  ELSE LET i == CHOOSE x \in Holding(hs, f): \A y \in Holding(hs, f): y <= x
           nodes == hubs[hs[i].hub_id].proxies
           j == CHOOSE x \in 1..hs[i].head_ptr: nodes[x].func = f
           after == {x \in 1..(j - 1): nodes[x].enabled}
       IN IF after = {} THEN hs[i].orig_addr
          ELSE ProxyAddr(nodes[CHOOSE x \in after: \A y \in after: y <= x].func)

\* C24: get_prev(self_func) answers from the topmost frame whose chain holds
\* self_func: the next enabled proxy after it, or the frame's orig_addr at the
\* tail; it answers null exactly when no frame's chain holds self_func.
C24_GetPrevSearchesFrames ==
  [][\A f \in Funcs, sp \in Sps:
       (/\ Len(trace'[1]) = 1 /\ trace'[1][1][1] \in {"null", "orig", "proxy"}
        /\ hub_stack' = hub_stack /\ op_get_prev(f, sp)) =>
          /\ trace'[1][1] = PrevOwed(hub_stack[1], f)
          /\ trace'[1][1] = NULL <=> Holding(hub_stack[1], f) = {}]_vars

\* get_prev was answered by a frame below the top of the stack
C24_Witness ==
  /\ Len(hub_stack[1]) >= 2 /\ Len(trace[1]) = 1
  /\ trace[1][1][1] \in {"null", "orig", "proxy"}
  /\ \E f \in Funcs:
       /\ Len(hub_stack[1]) \notin Holding(hub_stack[1], f)
       /\ Holding(hub_stack[1], f) # {}
       /\ trace[1][1] = get_prev_func(hub_stack[1], f)

\* a stack without the topmost of its frames that pass the test
WithoutTopmost(st, Test(_)) ==
  LET at == {i \in 1..Len(st): Test(st[i])}
  IN IF at = {} THEN st
     ELSE LET i == CHOOSE x \in at: \A y \in at: y <= x
          IN SubSeq(st, 1, i - 1) \o SubSeq(st, i + 1, Len(st))

\* the change of the hub stack and of the frame counter in a step
PopsTo(post) ==
  /\ hub_stack'[1] = post
  /\ active_frames' = active_frames - (Len(hub_stack[1]) - Len(post))

\* what every step of the three removing operations shows
Popped ==
  /\ tasks' = tasks /\ hubs' = hubs /\ status = "Ok"
  /\ trace'[1] = Removed(hub_stack[1], hub_stack'[1])

\* the claim as stated: each of the three removes at most one frame
C25_PopRemovesOneFrame ==
  [][~Popped \/
     /\ \A h \in 1..MaxHubs, sp \in Sps:
          PopsTo(WithoutTopmost(hub_stack[1], LAMBDA fr: fr.hub_id = h))
             \/ ~op_pop_stack(h, sp)
     /\ \A ra \in RetAddrs:
          PopsTo(WithoutTopmost(hub_stack[1], LAMBDA fr: fr.return_addr = ra))
             \/ ~op_pop_by_return_address(ra)
     /\ \A f \in Funcs, sp \in Sps:
          PopsTo(WithoutTopmost(hub_stack[1], LAMBDA fr: fr.first_proxy = f))
             \/ ~op_proxy_leave(f, sp)]_vars

\* C25: pop_stack(return_addr) and proxy_leave(func) remove at most one hub
\* frame, the topmost one that matches, wherever it sits; pop_callback(hub) first
\* drops the frames captured at or below the stack pointer and then removes the
\* topmost frame of the hub among the rest; the other frames keep their order
\* and the frame counter falls by the number of frames removed.
C25_PopRemovesOneLiveFrame ==
  [][~Popped \/
     /\ \A h \in 1..MaxHubs, sp \in Sps:
          PopsTo(WithoutTopmost(SelectSeq(hub_stack[1], LAMBDA fr: fr.stack_sp > sp),
                                   LAMBDA fr: fr.hub_id = h))
             \/ ~op_pop_stack(h, sp)
     /\ \A ra \in RetAddrs:
          PopsTo(WithoutTopmost(hub_stack[1], LAMBDA fr: fr.return_addr = ra))
             \/ ~op_pop_by_return_address(ra)
     /\ \A f \in Funcs, sp \in Sps:
          PopsTo(WithoutTopmost(hub_stack[1], LAMBDA fr: fr.first_proxy = f))
             \/ ~op_proxy_leave(f, sp)]_vars

\* one frame was taken off the hub stack and another one stays on it
C25_Witness ==
  /\ Len(trace[1]) = 1 /\ trace[1][1][1] = "ret" /\ hub_stack[1] # <<>>
  /\ active_frames = Len(hub_stack[1])

\* the functions that have a frame on a proxy stack
Entered(ps) == {ps[i].func: i \in 1..Len(ps)}

\* C27: proxy_enter(func) returns false and pushes nothing when func is already
\* on the thread's proxy stack, so the stack never holds a function twice; once
\* proxy_leave(func) has removed the entry, wherever it sat, the next
\* proxy_enter(func) succeeds.
C27_ProxyEnterRejectsCycle ==
  [][/\ Cardinality(Entered(proxy_stack'[1])) = Len(proxy_stack'[1])
     /\ \A f \in Funcs, sp \in Sps:
          (Len(trace'[1]) = 1 /\ trace'[1][1][2] = f /\ op_proxy_enter(f, sp)) =>
             IF f \in Entered(proxy_stack[1])
             THEN /\ trace'[1][1][1] = "refused"
                  /\ Len(proxy_stack'[1]) <= Len(proxy_stack[1])
                  /\ proxy_stack'[1] = SubSeq(proxy_stack[1], 1, Len(proxy_stack'[1]))
             ELSE /\ trace'[1][1][1] = "entered"
                  /\ proxy_stack'[1] # <<>>
                  /\ proxy_stack'[1][Len(proxy_stack'[1])].func = f
     /\ \A f \in Funcs, sp \in Sps:
          (f \in Entered(proxy_stack'[1]) /\ op_proxy_leave(f, sp)) => FALSE]_vars

\* the nodes of a hub's chain that are enabled (the head has the highest index)
EnabledNodes(hub) == {i \in 1..Len(hub.proxies): hub.proxies[i].enabled}

\* the chain of a hub that lives on holds the nodes it held, in place
NodesKept(old, new) ==
  /\ Len(new.proxies) >= Len(old.proxies)
  /\ \A i \in 1..Len(old.proxies): new.proxies[i].func = old.proxies[i].func

\* C28: a push on a hub that has no frame on the stack, the stack holding no
\* stale frame and having room, returns the function of the first enabled node
\* of the chain and pushes a frame; when no node is enabled it returns orig_addr,
\* pushes no frame and leaves the frame counter as it is; the nodes of a chain
\* are disabled in place and never unlinked while the hub is not destroyed.
C28_PushReturnsFirstEnabled ==
  [][/\ \A h \in DOMAIN hubs, sp \in Sps:
          (/\ Len(trace'[1]) = 1 /\ trace'[1][1][1] \in {"orig", "proxy"}
           /\ Fresh(hub_stack[1], sp) /\ Len(hub_stack[1]) < HUB_STACK_CAP
           /\ \A i \in 1..Len(hub_stack[1]): hub_stack[1][i].hub_id # h
           /\ \E ra \in RetAddrs: op_push_stack(h, ra, sp)) =>
              LET on == EnabledNodes(hubs[h])
              IN IF on = {}
                 THEN /\ trace'[1][1] = hubs[h].orig_addr
                      /\ hub_stack' = hub_stack /\ active_frames' = active_frames
                 ELSE LET i == CHOOSE x \in on: \A y \in on: y <= x
                      IN /\ trace'[1][1] = ProxyAddr(hubs[h].proxies[i].func)
                         /\ Len(hub_stack'[1]) = Len(hub_stack[1]) + 1
                         /\ hub_stack'[1][Len(hub_stack'[1])].hub_id = h
                         /\ hub_stack'[1][Len(hub_stack'[1])].first_proxy =
                               hubs[h].proxies[i].func
                         /\ active_frames' = active_frames + 1
     /\ \A h \in DOMAIN hubs \cap DOMAIN hubs':
          (hubs[h].st # "freed" /\ hubs'[h].st # "freed") => NodesKept(hubs[h], hubs'[h])]_vars

\* the head of a chain was disabled, a push skipped it and returned the node below
C28_Witness ==
  \E h \in DOMAIN hubs:
    /\ Len(hubs[h].proxies) = 2
    /\ ~hubs[h].proxies[2].enabled /\ hubs[h].proxies[1].enabled
    /\ trace[1] = <<ProxyAddr(hubs[h].proxies[1].func)>>
    /\ hub_stack[1] # <<>>
    /\ hub_stack[1][Len(hub_stack[1])].hub_id = h
    /\ hub_stack[1][Len(hub_stack[1])].first_proxy = hubs[h].proxies[1].func

\* ---- one refresh pass, a symbol having up to MaxSlots GOT slots in a module ----
\* refresh/ops.rs: init_elf_guard and find_slots_guard fail before any slot is
\* touched, patch_slot fails at one slot
ElfErrs == {"ReadElf", "Format"}
PatchErrs == {"GetProt", "SetProt", "SetGot", "GotVerify"}

\* the inputs: the slots of the symbol in each module, the tasks (hook_all on the
\* symbol, each with an on_hooked callback), the mode, and the one operation that
\* fails: <<module, stub, slot>> with slot 0 for the ELF reads, or <<0, 0, 0>> for
\* none
PassInputs ==
  {p \in [pc : {"ready"}, nslots : [Modules -> 1..MaxSlots], ntasks : 1..MaxStub,
          fail : (0..NumModules) \X (0..MaxStub) \X (0..MaxSlots),
          err : ElfErrs \cup PatchErrs \cup {"Ok"}, mode : {"Automatic", "Manual"},
          done : {{}}, events : {<<>>}, ret : {"Ok"}] :
     \/ p.fail = <<0, 0, 0>> /\ p.err = "Ok"
     \/ /\ p.fail[1] \in Modules /\ p.fail[2] \in 1..p.ntasks
        /\ \/ p.fail[3] = 0 /\ p.err \in ElfErrs
           \/ p.fail[3] \in 1..p.nslots[p.fail[1]] /\ p.err \in PatchErrs}

\* refresh/apply.rs: for slot_addr in got_slots { ... patch_slot(..)?; ... }
\* a is what the pass has done so far: the slots installed and the events emitted
RECURSIVE SlotLoop(_, _, _, _, _)
SlotLoop(p, m, stub, k, a) ==
  LET a1 == IF p.mode = "Manual" THEN emit_event(a, m, stub, k, "OrigAddr") ELSE a
  IN IF k > p.nslots[m] THEN [a EXCEPT !.err = "Ok"]
     ELSE IF p.fail = <<m, stub, k>> THEN [a1 EXCEPT !.err = p.err]
     ELSE SlotLoop(p, m, stub, k + 1,
                   emit_event([a1 EXCEPT !.done = @ \cup {<<m, stub, k>>}],
                              m, stub, k, "Ok"))

apply_task_slots(p, m, stub, a) ==
  IF p.fail = <<m, stub, 0>> THEN [a EXCEPT !.err = p.err]
  ELSE SlotLoop(p, m, stub, 1, a)

\* refresh.rs: for module in &modules { for task_stub in &task_list { ... } }
RECURSIVE PassLoop(_, _, _, _, _)
PassLoop(p, pairs, i, a, first_err) ==
  IF i > Len(pairs) THEN [done |-> a.done, events |-> a.events, ret |-> first_err]
  ELSE LET r == apply_task_slots(p, pairs[i][1], pairs[i][2], a)
       IN PassLoop(p, pairs, i + 1, r,
                   IF r.err # "Ok" /\ first_err = "Ok" THEN r.err ELSE first_err)

refresh_pass ==
  /\ pass.pc = "ready"
  /\ LET order == [i \in 1..pass.ntasks |-> i]
         r == PassLoop(pass, LoopPairs(Modules, order), 1,
                       [done |-> {}, events |-> <<>>, err |-> "Ok"], "Ok")
     IN pass' = [pass EXCEPT !.pc = "done", !.done = r.done, !.events = r.events,
                             !.ret = r.ret]
  /\ UNCHANGED <<envVars, coreVars, hubVars, threadVars, histVars, lockVars, sideVars>>

PassInit ==
  /\ EngineInit /\ pass \in PassInputs /\ SideInit
  /\ faults = 0 /\ env_left = 0 /\ clears_left = 0 /\ ticks_left = 0

PassNext == refresh_pass

PassSpec == PassInit /\ [][PassNext]_vars

\* C19: a transient failure at one slot skips that slot only: every other slot
\* of the same module, of other modules and of other tasks is installed in the
\* same pass, and the pass returns that error.
C19_OnlyFailingSlotSkipped ==
  (pass.pc = "done" /\ pass.fail[3] > 0) =>
     /\ pass.ret = pass.err
     /\ \A m \in Modules, stub \in 1..pass.ntasks:
          \A k \in 1..pass.nslots[m]:
             <<m, stub, k>> # pass.fail => <<m, stub, k>> \in pass.done

\* the events of a pass told about one slot and one task
EventsOf(m, stub, k) ==
  SelectSeq(pass.events,
            LAMBDA ev: ev.caller = m /\ ev.task_stub = stub /\ ev.slot = k)

\* C29: in Manual mode every install of a task at a slot tells on_hooked an
\* OrigAddr event and then the Ok event of the same task and slot in the same
\* pass: an installed slot yields exactly that pair, and every OrigAddr event is
\* followed by its Ok event.
C29_OrigAddrThenOk ==
  (pass.pc = "done" /\ pass.mode = "Manual") =>
     /\ \A i \in 1..Len(pass.events):
          pass.events[i].status = "OrigAddr" =>
             /\ i < Len(pass.events)
             /\ pass.events[i + 1] = [pass.events[i] EXCEPT !.status = "Ok"]
     /\ \A m \in Modules, stub \in 1..pass.ntasks:
          \A k \in 1..pass.nslots[m]:
             <<m, stub, k>> \in pass.done =>
                LET evs == EventsOf(m, stub, k)
                IN Len(evs) = 2 /\ evs[1].status = "OrigAddr" /\ evs[2].status = "Ok"

\* ======================= the locking protocol =======================
\* Each API call is the sequence of lock, unlock and call instructions its code
\* performs; what it computes is reduced to the flags the control flow reads.
\*   <<"L", lock, how>>  acquire      <<"U", lock>>  release (a guard is dropped)
\*   <<"D", tag>>        compute      <<"B", pc>>    go to pc unless the flag is set
\*   <<"C", operation>>  call         <<"G", pc>>    go to pc      <<"R">>  return

\* lifecycle/entry_init.rs init
Code_init ==
  << <<"L", "state", "lock">>, <<"D", "init_state">>, <<"U", "state">>, <<"B", 9>>,
     <<"C", "start_monitor_thread">>, <<"L", "state", "lock">>, <<"U", "state">>,
     <<"C", "install_auto_loader_monitor_hooks">>, <<"R">> >>

\* lifecycle/task_ops.rs add_task: the guards of dlclose_lock and refresh_mutex
\* live to the end of the function; the caller filter runs inside the pass and
\* invoke_callbacks after the state guard is dropped
Code_add_task ==
  << <<"L", "dlclose", "read">>, <<"L", "refresh", "lock">>, <<"L", "state", "lock">>,
     <<"D", "check">>, <<"B", 14>>,
     <<"D", "add_body">>, <<"X", "allow_filter">>, <<"U", "state">>, <<"B", 12>>,
     <<"C", "start_monitor_thread">>, <<"C", "install_auto_loader_monitor_hooks">>,
     <<"X", "on_hooked">>, <<"G", 15>>,
     <<"U", "state">>, <<"U", "refresh">>, <<"U", "dlclose">>, <<"R">> >>

\* lifecycle/monitor.rs start_monitor_thread
Code_start_monitor_thread ==
  << <<"L", "state", "lock">>, <<"D", "start_body">>, <<"U", "state">>, <<"R">> >>

\* lifecycle/monitor.rs install_auto_loader_monitor_hooks, one hook of the three
Code_install_auto_loader_monitor_hooks ==
  << <<"D", "install_swap">>, <<"B", 4>>, <<"C", "add_task">>, <<"R">> >>

\* lifecycle/entry_hook.rs unhook
Code_unhook ==
  << <<"L", "dlclose", "read">>, <<"L", "refresh", "lock">>, <<"L", "state", "lock">>,
     <<"D", "check">>, <<"B", 7>>, <<"D", "unhook_body">>,
     <<"U", "state">>, <<"U", "refresh">>, <<"U", "dlclose">>, <<"R">> >>

\* lifecycle/entry_hook.rs refresh
Code_refresh ==
  << <<"L", "dlclose", "read">>, <<"L", "refresh", "lock">>, <<"L", "state", "lock">>,
     <<"D", "check">>, <<"B", 11>>,
     <<"D", "refresh_body">>, <<"X", "allow_filter">>, <<"U", "state">>,
     <<"X", "on_hooked">>, <<"G", 12>>,
     <<"U", "state">>, <<"U", "refresh">>, <<"U", "dlclose">>, <<"R">> >>

\* lifecycle/entry_control.rs clear
Code_clear ==
  << <<"L", "state", "lock">>, <<"D", "clear_stop">>, <<"U", "state">>, <<"D", "join">>,
     <<"L", "dlclose", "read">>, <<"L", "refresh", "lock">>, <<"L", "state", "lock">>,
     <<"D", "clear_body">>, <<"U", "state">>, <<"U", "refresh">>, <<"U", "dlclose">>,
     <<"R">> >>

\* lifecycle/monitor/poll.rs monitor_loop: the condvar wait gives state_mutex back
Code_monitor_loop ==
  << <<"L", "state", "wait">>, <<"D", "mon_take">>, <<"U", "state">>, <<"B", 15>>,
     <<"L", "dlclose", "read">>, <<"L", "refresh", "lock">>, <<"L", "state", "lock">>,
     <<"D", "mon_refresh">>, <<"X", "allow_filter">>, <<"U", "state">>,
     <<"X", "on_hooked">>, <<"U", "refresh">>, <<"U", "dlclose">>, <<"G", 1>>, <<"R">> >>

\* lifecycle/monitor/proxies.rs monitor_dlclose, then request_refresh_async_full
Code_monitor_dlclose ==
  << <<"L", "dlclose", "write">>, <<"D", "unload">>, <<"U", "dlclose">>,
     <<"L", "state", "lock">>, <<"D", "full_refresh">>, <<"U", "state">>, <<"R">> >>

\* the loader's dlclose reached through a slot that holds no observer
Code_dlclose ==
  << <<"D", "unload">>, <<"R">> >>

\* lifecycle/monitor/proxies.rs monitor_dlopen: the pre and post callbacks are
\* copied under state_mutex and run without it, then
\* request_refresh_async_with_handle
Code_monitor_dlopen ==
  << <<"L", "state", "lock">>, <<"D", "copy_callbacks">>, <<"U", "state">>,
     <<"X", "pre_dlopen">>, <<"D", "load">>,
     <<"L", "state", "lock">>, <<"D", "copy_callbacks">>, <<"U", "state">>,
     <<"X", "post_dlopen">>,
     <<"L", "state", "lock">>, <<"D", "with_handle">>, <<"U", "state">>, <<"R">> >>

\* refresh/ops/module_scan/noload.rs resolve_namespace_id_from_noload: the probe
\* reopens a loaded module with RTLD_NOLOAD and closes the handle again; both
\* calls leave through the slots of libdl.so that hold the loader observers
Code_resolve_namespace_id_from_noload ==
  << <<"C", "monitor_dlopen">>, <<"C", "monitor_dlclose">>, <<"R">> >>

Code(op) ==
  CASE op = "init" -> Code_init
    [] op = "resolve_namespace_id_from_noload" -> Code_resolve_namespace_id_from_noload
    [] op = "add_task" -> Code_add_task
    [] op = "start_monitor_thread" -> Code_start_monitor_thread
    [] op = "install_auto_loader_monitor_hooks" -> Code_install_auto_loader_monitor_hooks
    [] op = "unhook" -> Code_unhook
    [] op = "refresh" -> Code_refresh
    [] op = "clear" -> Code_clear
    [] op = "monitor_loop" -> Code_monitor_loop
    [] op = "monitor_dlclose" -> Code_monitor_dlclose
    [] op = "dlclose" -> Code_dlclose
    [] op = "monitor_dlopen" -> Code_monitor_dlopen

\* the control API of api.rs, and the loader calls of the host program
ControlCalls == {"init", "add_task", "unhook", "refresh", "clear"}
LoaderCalls == {"monitor_dlclose", "dlclose", "monitor_dlopen"}
ApiCalls == ControlCalls \cup LoaderCalls

\* callback_ctx.rs: the callbacks that run inside run_in_external_callback
Wrapped == {"allow_filter"}

\* cb: the user callback this call was made from ("none": from the program);
\* ev: the call has callbacks to run
CbFrame(op, md, cb) ==
  [op |-> op, pc |-> 1, need |-> FALSE, md |-> md, cb |-> cb, ev |-> FALSE]

LFrame(op, md) == CbFrame(op, md, "none")

Running(th) == lstack[th] # <<>>
Cur(th) == lstack[th][Len(lstack[th])]
Instr(th) == Code(Cur(th).op)[Cur(th).pc]
At(th, kind) == Running(th) /\ Instr(th)[1] = kind

HoldsState(th) == lk_owner["state"] = th
HoldsRefresh(th) == lk_owner["refresh"] = th
HoldsDlclose(th) == lk_writer = th \/ lk_readers[th] > 0

\* std::sync: a Mutex is free, a read lock needs no writer, a write lock nobody
Available(th, i) ==
  CASE i[3] = "read" -> lk_writer = 0
    [] i[3] = "write" -> lk_writer = 0 /\ \A o \in LockThreads: lk_readers[o] = 0
    [] i[3] = "lock" -> lk_owner[i[2]] = 0
    [] i[3] = "wait" -> lk_owner[i[2]] = 0 /\ (~monitor_running \/ refresh_requested)

Advance(th, fr) == lstack' = [lstack EXCEPT ![th][Len(lstack[th])] = fr]

LockRest ==
  UNCHANGED <<envVars, process_id, install_pid, next_stub, tasks, task_order, task_slots,
              slots, single_task_targets, known_modules, hubVars, threadVars, gone,
              shared, ret, ticks_left, pass, ignore_callers, sideVars>>

\* the calls one behaviour may make of init, of clear and of the loader
Charge(op) ==
  /\ op = "init" => inits_left > 0
  /\ op = "clear" => clears_left > 0
  /\ op \in LoaderCalls => env_left > 0
  /\ inits_left' = IF op = "init" THEN inits_left - 1 ELSE inits_left
  /\ clears_left' = IF op = "clear" THEN clears_left - 1 ELSE clears_left
  /\ env_left' = IF op \in LoaderCalls THEN env_left - 1 ELSE env_left

NoCharge == UNCHANGED <<env_left, clears_left, inits_left>>

\* lifecycle/callback_ctx.rs is_in_external_callback: the thread is inside a
\* callback that run_in_external_callback wraps
in_external_callback(th) ==
  \/ At(th, "X") /\ Instr(th)[2] \in Wrapped
  \/ \E i \in 1..Len(lstack[th]): lstack[th][i].cb \in Wrapped

\* a caller enters the API; the loader observers exist once the loader hooks do,
\* and until then dlclose goes straight to the loader
l_begin(th, op, md) ==
  /\ ~Running(th)
  /\ op \in {"monitor_dlclose", "monitor_dlopen"} => auto_installed
  /\ op = "dlclose" => ~auto_installed
  /\ op # "init" => md = "Automatic"
  /\ Charge(op)
  /\ lstack' = [lstack EXCEPT ![th] = <<LFrame(op, md)>>]
  /\ UNCHANGED <<status, mode, monitor_running, refresh_requested, lk_readers, lk_writer,
                 lk_owner, auto_installed>>
  /\ LockRest

l_lock(th) ==
  /\ At(th, "L") /\ Available(th, Instr(th))
  /\ LET i == Instr(th)
     IN /\ lk_readers' = IF i[3] = "read" THEN [lk_readers EXCEPT ![th] = @ + 1]
                         ELSE lk_readers
        /\ lk_writer' = IF i[3] = "write" THEN th ELSE lk_writer
        /\ lk_owner' = IF i[3] \in {"lock", "wait"} THEN [lk_owner EXCEPT ![i[2]] = th]
                       ELSE lk_owner
  /\ Advance(th, [Cur(th) EXCEPT !.pc = @ + 1])
  /\ UNCHANGED <<status, mode, monitor_running, refresh_requested, auto_installed>>
  /\ NoCharge /\ LockRest

l_unlock(th) ==
  /\ At(th, "U")
  /\ LET i == Instr(th)
     IN /\ lk_readers' = IF i[2] = "dlclose" /\ lk_writer # th
                         THEN [lk_readers EXCEPT ![th] = @ - 1] ELSE lk_readers
        /\ lk_writer' = IF i[2] = "dlclose" /\ lk_writer = th THEN 0 ELSE lk_writer
        /\ lk_owner' = IF i[2] # "dlclose" THEN [lk_owner EXCEPT ![i[2]] = 0] ELSE lk_owner
  /\ Advance(th, [Cur(th) EXCEPT !.pc = @ + 1])
  /\ UNCHANGED <<status, mode, monitor_running, refresh_requested, auto_installed>>
  /\ NoCharge /\ LockRest

\* entry_control.rs clear: state.monitor_thread.take() of another call of clear
\* holds the handle of the monitor thread, and that call has not joined it yet
HandleTaken ==
  \E o \in LockThreads: \E i \in 1..Len(lstack[o]):
    lstack[o][i].op = "clear" /\ lstack[o][i].pc \in {3, 4} /\ lstack[o][i].need

\* the monitor thread ends: every join of its handle returns
Joined(ls) ==
  [o \in LockThreads |->
     [i \in 1..Len(ls[o]) |->
        IF ls[o][i].op = "clear" THEN [ls[o][i] EXCEPT !.need = FALSE] ELSE ls[o][i]]]

\* what the code between two lock operations does to the flags
l_do(th) ==
  /\ Running(th) /\ Instr(th)[1] \in {"D", "B", "G"}
  /\ LET fr == Cur(th)
         i == Instr(th)
         tag == IF i[1] = "D" THEN i[2] ELSE i[1]
         next == [fr EXCEPT !.pc = @ + 1]
         spawn == tag = "start_body" /\ ~monitor_running /\ th # Mon
     IN /\ tag = "join" => ~fr.need
        /\ status' = CASE tag = "init_state" /\ status = "Uninit" -> "Ok"
                       [] tag = "clear_body" -> "Uninit"
                       [] OTHER -> status
        /\ mode' = CASE tag = "init_state" /\ status = "Uninit" -> fr.md
                     [] tag = "clear_body" -> "Automatic"
                     [] OTHER -> mode
        /\ monitor_running' = CASE tag = "start_body" -> TRUE
                                [] tag = "clear_stop" -> FALSE
                                [] OTHER -> monitor_running
        /\ refresh_requested' =
             CASE tag = "add_body" /\ status = "Ok" /\ mode = "Automatic" -> TRUE
               [] tag \in {"full_refresh", "with_handle"} /\ monitor_running -> TRUE
               [] tag \in {"mon_take", "clear_body"} -> FALSE
               [] OTHER -> refresh_requested
        /\ auto_installed' = CASE tag = "install_swap" -> TRUE
                               [] tag = "clear_body" -> FALSE
                               [] OTHER -> auto_installed
        /\ LET fr2 ==
                 CASE tag = "init_state" ->
                        [next EXCEPT !.need = status = "Uninit" /\ fr.md = "Automatic"]
                   [] tag = "check" -> [next EXCEPT !.need = status = "Ok"]
                   [] tag = "add_body" ->
                        [next EXCEPT !.need = mode = "Automatic" /\ ~monitor_running,
                                     !.ev = mode = "Automatic"]
                   [] tag \in {"refresh_body", "mon_refresh", "copy_callbacks"} ->
                        [next EXCEPT !.ev = TRUE]
                   [] tag = "install_swap" -> [next EXCEPT !.need = ~auto_installed]
                   [] tag = "clear_stop" ->
                        [next EXCEPT !.need = Running(Mon) /\ ~HandleTaken]
                   [] tag = "mon_take" -> [next EXCEPT !.need = monitor_running]
                   [] tag = "B" -> IF fr.need THEN next ELSE [fr EXCEPT !.pc = i[2]]
                   [] tag = "G" -> [fr EXCEPT !.pc = i[2]]
                   [] OTHER -> next
               ls == [lstack EXCEPT ![th][Len(lstack[th])] = fr2]
           IN lstack' = IF spawn /\ ~Running(Mon)
                        THEN [ls EXCEPT ![Mon] = <<LFrame("monitor_loop", "Automatic")>>]
                        ELSE ls
  /\ UNCHANGED <<lk_readers, lk_writer, lk_owner>>
  /\ NoCharge /\ LockRest

l_call(th) ==
  /\ At(th, "C")
  /\ lstack' = [lstack EXCEPT ![th] =
                  Append([@ EXCEPT ![Len(@)].pc = @ + 1],
                         CbFrame(Instr(th)[2], Cur(th).md, Cur(th).cb))]
  /\ UNCHANGED <<status, mode, monitor_running, refresh_requested, lk_readers, lk_writer,
                 lk_owner, auto_installed>>
  /\ NoCharge /\ LockRest

l_return(th) ==
  /\ At(th, "R")
  /\ LET ls == [lstack EXCEPT ![th] = SubSeq(@, 1, Len(@) - 1)]
     IN lstack' = IF th = Mon /\ ls[Mon] = <<>> THEN Joined(ls) ELSE ls
  /\ UNCHANGED <<status, mode, monitor_running, refresh_requested, lk_readers, lk_writer,
                 lk_owner, auto_installed>>
  /\ NoCharge /\ LockRest

\* a user callback runs: it returns, or it calls the control API first
\* (api.rs: the call is rejected when in_external_callback)
l_callback(th, op) ==
  /\ At(th, "X")
  /\ LET admitted == /\ Cur(th).ev /\ op # "none"
                     /\ ~in_external_callback(th) /\ Cur(th).cb = "none"
     IN IF admitted
        THEN /\ Charge(op)
             /\ lstack' = [lstack EXCEPT ![th] =
                             Append([@ EXCEPT ![Len(@)].pc = @ + 1],
                                    CbFrame(op, Cur(th).md, Instr(th)[2]))]
        ELSE /\ NoCharge
             /\ lstack' = [lstack EXCEPT ![th][Len(lstack[th])].pc = @ + 1]
  /\ UNCHANGED <<status, mode, monitor_running, refresh_requested, lk_readers, lk_writer,
                 lk_owner, auto_installed>>
  /\ LockRest

LockNext ==
  \/ \E th \in Callers, op \in ApiCalls, md \in {"Automatic", "Manual"}: l_begin(th, op, md)
  \/ \E th \in LockThreads: l_lock(th)
  \/ \E th \in LockThreads: l_unlock(th)
  \/ \E th \in LockThreads: l_do(th)
  \/ \E th \in LockThreads: l_call(th)
  \/ \E th \in LockThreads: l_return(th)
  \/ \E th \in LockThreads, op \in ControlCalls \cup {"none"}: l_callback(th, op)

\* no system call fails in the locking protocol
LockInit == Init /\ faults = 0

LockSpec == LockInit /\ [][LockNext]_vars

\* thread a waits for a lock that thread b holds
WaitsFor(a, b) ==
  /\ At(a, "L") /\ ~Available(a, Instr(a))
  /\ LET i == Instr(a)
     IN IF i[2] = "dlclose"
        THEN lk_writer = b \/ (i[3] = "write" /\ lk_readers[b] > 0)
        ELSE lk_owner[i[2]] = b

\* every thread of D waits for a lock and only threads of D hold it
Deadlocked(D) ==
  /\ D # {}
  /\ \A a \in D: (\E b \in D: WaitsFor(a, b)) /\ \A b \in LockThreads \ D: ~WaitsFor(a, b)

\* the thread is inside an API call that a user callback made
InCallback(th) == \E i \in 1..Len(lstack[th]): lstack[th][i].cb # "none"

\* C10: no thread (user callbacks that call the API left aside) asks for
\* dlclose_lock or refresh_mutex while it holds state_mutex, nor for dlclose_lock
\* while it holds refresh_mutex, and no set of threads waits for locks that only
\* its own members hold.
C10_LockOrder ==
  /\ \A th \in LockThreads:
       (At(th, "L") /\ ~InCallback(th)) =>
         /\ Instr(th)[2] = "dlclose" => ~HoldsRefresh(th) /\ ~HoldsState(th)
         /\ Instr(th)[2] = "refresh" => ~HoldsState(th)
  /\ \A D \in SUBSET LockThreads: (\A a \in D: ~InCallback(a)) => ~Deadlocked(D)

\* the passes that parse ELF images, build trampolines and write GOT slots
PassBodies == {"add_body", "unhook_body", "refresh_body", "mon_refresh", "clear_body"}

InPass(th) ==
  /\ At(th, "D") /\ Instr(th)[2] \in PassBodies
  /\ status = "Ok"
  /\ Instr(th)[2] = "add_body" => mode = "Automatic"

\* the thread is about to invoke a user callback of this kind
Invoking(th, kind) == At(th, "X") /\ Instr(th)[2] = kind /\ Cur(th).ev

\* C11: no thread holds state_mutex while it builds a trampoline, parses an ELF
\* image or writes a GOT slot.
C11_StateMutexBookkeepingOnly ==
  \A th \in LockThreads: InPass(th) => ~HoldsState(th)

\* C12: a thread that invokes an on_hooked callback holds none of state_mutex,
\* refresh_mutex and dlclose_lock.
C12_CallbacksOutsideLocks ==
  \A th \in LockThreads:
    Invoking(th, "on_hooked") =>
      ~HoldsState(th) /\ ~HoldsRefresh(th) /\ ~HoldsDlclose(th)

\* C13: no control API call made from inside a user callback is admitted.
C13_CallbackCallsRejected ==
  \A th \in LockThreads: \A i \in 1..Len(lstack[th]): lstack[th][i].cb = "none"

\* C14: no image is unloaded while a pass reads or rewrites GOT slots.
C14_NoUnloadDuringPass ==
  \A a \in LockThreads, b \in LockThreads:
    (At(a, "D") /\ Instr(a)[2] = "unload") => ~InPass(b)

\* ---- the probes of a pass: refresh.rs refresh_internal, module_scan.rs ----
\* the passes that call enumerate_modules
Enumerating == {"add_body", "refresh_body", "mon_refresh"}

\* lifecycle/monitor.rs install_loader_hooks_for_libdl has hooked the slots of
\* libdl.so: the flag is set and the call that set it has returned
ObserversHooked ==
  /\ auto_installed
  /\ \A o \in LockThreads: \A i \in 1..Len(lstack[o]):
        lstack[o][i].op # "install_auto_loader_monitor_hooks"

\* refresh/ops/module_scan/hints.rs apply_observed_instance_hints: enumerate_modules
\* meets a module whose namespace no hint resolves and probes it. Before the
\* loader observers are hooked the probe reaches the loader and takes no lock.
l_probe(th) ==
  /\ At(th, "D") /\ Instr(th)[2] \in Enumerating
  /\ status = "Ok" /\ ObserversHooked
  /\ Instr(th)[2] = "add_body" => mode = "Automatic"
  /\ lstack' = [lstack EXCEPT ![th] =
                  Append(@, CbFrame("resolve_namespace_id_from_noload", Cur(th).md,
                                    Cur(th).cb))]
  /\ UNCHANGED <<status, mode, monitor_running, refresh_requested, lk_readers, lk_writer,
                 lk_owner, auto_installed>>
  /\ NoCharge /\ LockRest

\* the locking protocol when every user callback returns without calling the API
ProbeNext ==
  \/ \E th \in Callers, op \in ApiCalls, md \in {"Automatic", "Manual"}: l_begin(th, op, md)
  \/ \E th \in LockThreads: l_lock(th)
  \/ \E th \in LockThreads: l_unlock(th)
  \/ \E th \in LockThreads: l_do(th)
  \/ \E th \in LockThreads: l_call(th)
  \/ \E th \in LockThreads: l_return(th)
  \/ \E th \in LockThreads: l_callback(th, "none")
  \/ \E th \in LockThreads: l_probe(th)

ProbeSpec == LockInit /\ [][ProbeNext]_vars

\* C37: no thread waits for state_mutex, refresh_mutex or dlclose_lock while it
\* holds that same lock itself, neither when a hook call starts the monitor and
\* installs the loader observers nor when a pass probes a module after the
\* observers have been hooked (user callbacks return without calling the API).
C37_NoWaitForOwnLock ==
  \A th \in LockThreads: ~WaitsFor(th, th)

\* ---- clear and the monitor thread: entry_control.rs clear, poll.rs monitor_loop ----
\* the calls that start and stop the monitor thread
MonitorCalls == {"init", "add_task", "clear"}

\* one instruction of a thread
l_step(th) ==
  \/ l_lock(th) \/ l_unlock(th) \/ l_do(th) \/ l_call(th) \/ l_return(th)
  \/ l_callback(th, "none")

ClearNext ==
  \/ \E th \in Callers, op \in MonitorCalls, md \in {"Automatic", "Manual"}:
        l_begin(th, op, md)
  \/ \E th \in LockThreads: l_step(th)

\* every thread keeps running, and a thread that can take a lock again and
\* again does take it
ClearSpec ==
  LockInit /\ [][ClearNext]_vars /\ \A th \in LockThreads: SF_vars(l_step(th))

\* the thread is inside clear()
InClear(th) == Running(th) /\ lstack[th][1].op = "clear"

\* C32: every call of clear() returns: the monitor thread observes
\* monitor_running = false and exits whatever it was doing, so the join ends.
C32_ClearTerminates ==
  \A th \in Callers: InClear(th) ~> ~InClear(th)

\* ---- the ignore list: lifecycle/entry_hook.rs add_ignore, rules.rs should_ignore ----
add_ignore(caller_path_name) ==
  /\ ~crashed
  /\ IF caller_path_name = <<>> THEN ret' = "InvalidArg" /\ UNCHANGED ignore_callers
     ELSE IF InSeq(ignore_callers, caller_path_name) THEN ret' = "Ok" /\ UNCHANGED ignore_callers
     ELSE /\ Len(ignore_callers) < MaxIgnores
          /\ ignore_callers' = Append(ignore_callers, caller_path_name)
          /\ ret' = "Ok"
  /\ Settle
  /\ UNCHANGED <<envVars, status, mode, process_id, install_pid, next_stub, tasks,
                 task_order, task_slots, slots, single_task_targets, known_modules,
                 monitor_running, refresh_requested, hubVars, cstack, hub_stack,
                 proxy_stack, gone, shared, env_left, clears_left, ticks_left, inits_left>>

\* the paths the linker may report: none, the vDSO, the engine's own library
\* and the library of the scenarios
ModulePaths ==
  { <<>>, <<"[", "vdso", "]">>, <<"/", "libsrx_hook.so">>, HookTestPath }

\* the rules a caller adds: the empty rule, a rule by name, a rule by name and
\* base address, and a rule for a library that is not loaded
IgnoreRules ==
  { <<>>, HookTestSo, <<"libhook_test.so", "@", "0", "x", "1">>, <<"libfoo.so">> }

IgnoreInit ==
  /\ EngineInit /\ pass = NoPass
  /\ pathname \in [Modules -> ModulePaths] /\ probe = NoProbe /\ guard = NoGuard
  /\ faults = 0 /\ env_left = MaxEnv /\ clears_left = 1 /\ ticks_left = 0

IgnoreNext ==
  \/ \E md \in {"Automatic", "Manual"}: init(md)
  \/ \E rule \in IgnoreRules: add_ignore(rule)
  \/ \E s \in Syms: hook_single(s, 1, 0)
  \/ \E s \in Syms: hook_all(s, NumFuncs, 0)
  \/ refresh(0)
  \/ monitor_loop(0)
  \/ clear(0)
  \/ \E m \in Modules: dlopen(m)

IgnoreSpec == IgnoreInit /\ [][IgnoreNext]_vars

\* the module is one that the claim exempts: no path, a path that begins with
\* '[', the engine's own library, or a match of a rule on the ignore list
Exempt(m) ==
  \/ PathOf(m) = <<>>
  \/ PathOf(m)[1] = "["
  \/ EndsWith(PathOf(m), <<"libsrx_hook.so">>)
  \/ \E i \in 1..Len(ignore_callers):
        module_match(PathOf(m), BaseOf(m), inst[m], nsid[m], ignore_callers[i])

\* the step installs a hook into module m: a GOT word of m becomes a
\* trampoline, or a task joins the chain of a slot of m
InstallsInto(m) ==
  \/ \E s \in Syms: loaded[m] /\ ~IsTrampo(got[m][s]) /\ IsTrampo(got'[m][s])
  \/ \E k \in DOMAIN slots': \E i \in 1..Len(slots'[k].task_chain):
        /\ k[1] = m
        /\ ~(k \in DOMAIN slots /\ InSeq(slots[k].task_chain, slots'[k].task_chain[i]))

\* C31: no step of the engine installs a hook into a module whose path is
\* empty, begins with '[', ends with the engine's own library name, or matches
\* a rule on the ignore list, whatever the scope of the task.
C31_IgnoredModulesNeverHooked ==
  [][\A m \in Modules: Exempt(m) => ~InstallsInto(m)]_vars

\* an exempt module is loaded beside a hooked one, a Single and an All task wait
C31_Witness ==
  /\ \E m \in Modules: loaded[m] /\ Exempt(m) /\ ignore_callers # <<>>
                         /\ PathOf(m) = HookTestPath
  /\ \E m \in Modules: loaded[m] /\ IsTrampo(got[m][1])
  /\ \E x \in DOMAIN tasks: tasks[x].type = "All"
  /\ \E x \in DOMAIN tasks: tasks[x].type = "Single"
  /\ known_modules # {}

\* ---- rules.rs module_match on its own ----
\* the text of a qualifier: absent, a number, a number with the 0x prefix, and
\* two texts that are no number
Qualifiers ==
  { [text |-> <<>>, given |-> FALSE, valid |-> FALSE, v |-> 0],
    [text |-> <<"1">>, given |-> TRUE, valid |-> TRUE, v |-> 1],
    [text |-> <<"0", "X", "1", "A">>, given |-> TRUE, valid |-> TRUE, v |-> 26],
    [text |-> <<"z">>, given |-> TRUE, valid |-> FALSE, v |-> 0],
    [text |-> <<"0", "x">>, given |-> TRUE, valid |-> FALSE, v |-> 0] }

\* the path part of a rule: relative, a shorter relative one, absolute, none
RulePaths ==
  { <<"lib", "foo.so">>, <<"foo.so">>, <<"/", "lib", "foo.so">>, <<>> }

\* the paths of the modules, one of them with the tail of a malformed rule
LinkerPaths ==
  { <<"/", "lib", "foo.so">>, <<"/", "lib", "foo.so", "@", "z">>, <<"/", "bar.so">> }

Ids == {1, 26}

\* the text of the rule path[@base][%instance][^namespace]
Suffix(c, q) == IF q.given THEN <<c>> \o q.text ELSE <<>>
RuleText(path, b, i, n) == path \o Suffix("@", b) \o Suffix("%", i) \o Suffix("^", n)

MatchInit ==
  /\ EngineInit /\ pass = NoPass /\ pathname = [m \in Modules |-> HookTestPath]
  /\ guard = NoGuard
  /\ faults = 0 /\ env_left = 0 /\ clears_left = 0 /\ ticks_left = 0
  /\ \E lp \in LinkerPaths, base \in Ids, instance \in Ids, namespace \in Ids,
        path \in RulePaths, b \in Qualifiers, i \in Qualifiers, n \in Qualifiers:
        probe = [pc |-> "call", linker_path |-> lp, base |-> base, instance |-> instance,
                 namespace |-> namespace, path |-> path, b |-> b, i |-> i, n |-> n,
                 rule |-> RuleText(path, b, i, n)]

module_match_call ==
  /\ probe.pc = "call"
  /\ probe' = [pc |-> "done", in |-> probe,
               result |-> module_match(probe.linker_path, probe.base, probe.instance,
                                       probe.namespace, probe.rule)]
  /\ UNCHANGED <<envVars, coreVars, hubVars, threadVars, histVars, lockVars, pass, pathname, guard>>

MatchNext == module_match_call

MatchSpec == MatchInit /\ [][MatchNext]_vars

\* the rule as the claim reads it, from the right: a qualifier that is a number
\* binds; from the first text that is no number leftwards all is the path
ReadRule(in) ==
  IF in.n.given /\ ~in.n.valid
  THEN [path |-> in.rule, b |-> FALSE, i |-> FALSE, n |-> FALSE]
  ELSE IF in.i.given /\ ~in.i.valid
  THEN [path |-> RuleText(in.path, in.b, in.i, [given |-> FALSE]),
        b |-> FALSE, i |-> FALSE, n |-> in.n.given]
  ELSE IF in.b.given /\ ~in.b.valid
  THEN [path |-> RuleText(in.path, in.b, [given |-> FALSE], [given |-> FALSE]),
        b |-> FALSE, i |-> in.i.given, n |-> in.n.given]
  ELSE [path |-> in.path, b |-> in.b.given, i |-> in.i.given, n |-> in.n.given]

\* equality for an absolute path, suffix match for a relative one
PathPartMatches(linker_path, path) ==
  IF path[1] = "/" THEN linker_path = path ELSE EndsWith(linker_path, path)

ShouldMatch(in) ==
  /\ PathPartMatches(in.linker_path, ReadRule(in).path)
  /\ ReadRule(in).b => in.b.v = in.base
  /\ ReadRule(in).i => in.i.v = in.instance
  /\ ReadRule(in).n => in.n.v = in.namespace

\* C34: a rule path[@base][%instance][^namespace] with a path part matches a
\* module exactly when the path part matches and every qualifier present equals
\* the module's base, instance and namespace; a trailing suffix that is no
\* hexadecimal number is part of the path.
C34_RuleMatchesExactly ==
  (probe.pc = "done" /\ ReadRule(probe.in).path # <<>>) =>
     probe.result = ShouldMatch(probe.in)

\* the same, for the rules whose text has something before its first qualifier
C34_RuleWithPathMatchesExactly ==
  (probe.pc = "done" /\ probe.in.path # <<>>) => probe.result = ShouldMatch(probe.in)

\* ---- lifecycle/monitor/poll.rs: the periodic poll of the monitor thread ----
\* a classification that looks at the count of loads alone
classify_epoch_delta_adds_only(last, current) ==
  IF ~last.some THEN "Changed"
  ELSE IF current[1] = last.v[1] THEN "Unchanged"
  ELSE IF current[1] > last.v[1] THEN "AddedOnly"
  ELSE "Changed"

classify_epoch_delta(last, current) ==
  IF ~last.some THEN "Changed"
  ELSE IF current[1] = last.v[1] /\ current[2] = last.v[2] THEN "Unchanged"
  ELSE IF current[2] = last.v[2] /\ current[1] > last.v[1] THEN "AddedOnly"
  ELSE "Changed"

\* module_epoch: the loader's counts of loads and unloads, if they can be read
NoEpoch == [some |-> FALSE, v |-> <<0, 0>>]
module_epoch(readable) == IF readable THEN Some(probe.epoch) ELSE NoEpoch

\* FallbackPollState::poll_epoch_delta
poll_epoch_delta(readable) ==
  IF readable THEN classify_epoch_delta(probe.last, probe.epoch) ELSE "Unknown"

\* FallbackPollState::new when the monitor thread starts
PollInit ==
  /\ EngineInit /\ pass = NoPass /\ pathname = [m \in Modules |-> HookTestPath]
  /\ guard = NoGuard
  /\ faults = 0 /\ env_left = 0 /\ clears_left = 0 /\ ticks_left = 0
  /\ \E readable \in BOOLEAN:
        probe = [pc |-> "poll", epoch |-> <<0, 0>>,
                 last |-> IF readable THEN Some(<<0, 0>>) ELSE NoEpoch,
                 delta |-> "none", kind |-> "none"]

\* an image is loaded, or unloaded, where no observer of the engine sees it
load_unobserved(m) ==
  /\ ~crashed /\ ~loaded[m] /\ inst[m] < MaxInst /\ probe.epoch[1] < MaxEpoch
  /\ loaded' = [loaded EXCEPT ![m] = TRUE]
  /\ inst' = [inst EXCEPT ![m] = @ + 1]
  /\ nsid' = [nsid EXCEPT ![m] = 0]
  /\ got' = [got EXCEPT ![m] = [s \in Syms |-> OrigOf(s)]]
  /\ probe' = [probe EXCEPT !.epoch[1] = @ + 1]
  /\ ret' = "Ok" /\ Calm
  /\ UNCHANGED <<pid, now, faults, crashed, coreVars, hubVars, cstack, hub_stack,
                 proxy_stack, gone, shared, env_left, clears_left, ticks_left, inits_left,
                 lockVars, pass, pathname, guard>>

unload_unobserved(m) ==
  /\ ~crashed /\ loaded[m] /\ ~InCall(m) /\ probe.epoch[2] < MaxEpoch
  /\ loaded' = [loaded EXCEPT ![m] = FALSE]
  /\ got' = [got EXCEPT ![m] = [s \in Syms |-> NULL]]
  /\ probe' = [probe EXCEPT !.epoch[2] = @ + 1]
  /\ ret' = "Ok" /\ Calm
  /\ UNCHANGED <<inst, nsid, pid, now, faults, crashed, coreVars, hubVars, cstack,
                 hub_stack, proxy_stack, gone, shared, env_left, clears_left, ticks_left,
                 inits_left, lockVars, pass, pathname, guard>>

\* monitor_loop when the timed wait ends with no refresh requested
monitor_poll(readable) ==
  /\ ~crashed /\ monitor_running /\ ~refresh_requested /\ process_id = pid
  /\ LET delta == poll_epoch_delta(readable)
         kind == IF delta = "AddedOnly" THEN "NewModulesOnly" ELSE "Full"
         r == refresh_internal(Work, tasks, task_order, kind = "NewModulesOnly", 0)
     IN IF delta = "Unchanged"
        THEN /\ probe' = [probe EXCEPT !.last = module_epoch(readable), !.delta = delta,
                                       !.kind = "none"]
             /\ UNCHANGED <<got, faults, coreVars, hubs>>
        ELSE /\ Feasible(r, 0)
             /\ Commit(r, 0)
             /\ probe' = [probe EXCEPT !.last = module_epoch(readable), !.delta = delta,
                                       !.kind = kind]
             /\ UNCHANGED <<status, mode, install_pid, next_stub, tasks, task_order>>
  /\ ret' = "Ok" /\ Calm
  /\ UNCHANGED <<loaded, inst, nsid, pid, now, crashed, active_frames, cstack, hub_stack,
                 proxy_stack, gone, shared, env_left, clears_left, ticks_left, inits_left,
                 lockVars, pass, pathname, guard>>

\* monitor_loop when a refresh was requested: on_event_refresh reads the epoch
monitor_event(readable) ==
  /\ ~crashed /\ monitor_running /\ refresh_requested /\ process_id = pid
  /\ LET r == refresh_internal([Work EXCEPT !.req = FALSE], tasks, task_order, TRUE, 0)
     IN Feasible(r, 0) /\ Commit(r, 0)
  /\ probe' = [probe EXCEPT !.last = module_epoch(readable), !.delta = "none",
                            !.kind = "NewModulesOnly"]
  /\ ret' = "Ok" /\ Calm
  /\ UNCHANGED <<status, mode, install_pid, next_stub, tasks, task_order>>
  /\ UNCHANGED <<loaded, inst, nsid, pid, now, crashed, active_frames, cstack, hub_stack,
                 proxy_stack, gone, shared, env_left, clears_left, ticks_left, inits_left,
                 lockVars, pass, pathname, guard>>

PollNext ==
  \/ init("Automatic")
  \/ \E s \in Syms, f \in Funcs: hook_all(s, f, 0)
  \/ \E m \in Modules: load_unobserved(m)
  \/ \E m \in Modules: unload_unobserved(m)
  \/ \E readable \in BOOLEAN: monitor_poll(readable)
  \/ \E readable \in BOOLEAN: monitor_event(readable)

PollSpec == PollInit /\ [][PollNext]_vars

\* C40: a periodic poll classifies the epoch against the last one seen: equal,
\* Unchanged and no refresh; only more loads, AddedOnly and an incremental
\* refresh; any other difference or no last epoch, Changed and a full refresh;
\* unreadable, Unknown and a full refresh; so a poll that sees the count of
\* unloads differ runs a full refresh.
C40_PollClassifiesEpoch ==
  [][\A readable \in BOOLEAN:
       monitor_poll(readable) =>
         LET e == probe.epoch
             l == probe.last
             d == probe'.delta
             k == probe'.kind
         IN /\ ~readable => d = "Unknown" /\ k = "Full"
            /\ (readable /\ ~l.some) => d = "Changed" /\ k = "Full"
            /\ (readable /\ l.some /\ e = l.v) =>
                  d = "Unchanged" /\ k = "none" /\ slots' = slots /\ got' = got
            /\ (readable /\ l.some /\ e[2] = l.v[2] /\ e[1] > l.v[1]) =>
                  d = "AddedOnly" /\ k = "NewModulesOnly"
            /\ (readable /\ l.some /\ (e[2] # l.v[2] \/ e[1] < l.v[1])) =>
                  d = "Changed" /\ k = "Full"
            /\ (readable /\ l.some /\ e[2] # l.v[2]) => k = "Full"]_vars

\* a poll has met an unload that no observer saw and has run a full refresh
C40_Witness ==
  /\ probe.pc = "poll" /\ probe.delta = "Changed" /\ probe.kind = "Full"
  /\ probe.last = Some(probe.epoch) /\ probe.epoch[2] > 0
  /\ \E m \in Modules: ~loaded[m] /\ inst[m] > 0
  /\ tasks # EmptyMap

\* ---- android/signal_guard: with_guard with the guard enabled ----
\* slot.rs: the slots in the order acquire_slot tries them, the static array
\* first, then the extra nodes from the newest
SlotOrder(g) ==
  [i \in 1..Len(g.slots) |->
     IF i <= BaseSlots THEN i ELSE Len(g.slots) + BaseSlots + 1 - i]

FirstSlot(g, P(_)) ==
  IF \E i \in 1..Len(g.slots): P(g.slots[SlotOrder(g)[i]])
  THEN SlotOrder(g)[CHOOSE i \in 1..Len(g.slots):
                      /\ P(g.slots[SlotOrder(g)[i]])
                      /\ \A j \in 1..(i - 1): ~P(g.slots[SlotOrder(g)[j]])]
  ELSE 0

find_slot_by_tid(g, tid) == FirstSlot(g, LAMBDA sl: sl.tid = tid)
find_active_slot_by_tid(g, tid) == FirstSlot(g, LAMBDA sl: sl.tid = tid /\ sl.active)

\* acquire_slot: the slot of the thread, else a free one, else a new node
acquire_slot(g, tid) ==
  IF find_slot_by_tid(g, tid) # 0 THEN [g |-> g, slot |-> find_slot_by_tid(g, tid)]
  ELSE IF find_slot_by_tid(g, 0) # 0
  THEN [g |-> [g EXCEPT !.slots[find_slot_by_tid(g, 0)].tid = tid],
        slot |-> find_slot_by_tid(g, 0)]
  ELSE [g |-> [g EXCEPT !.slots = Append(@, [NewSlot EXCEPT !.tid = tid])],
        slot |-> Len(g.slots) + 1]

\* a drop that leaves the slot as it is
GuardReset_drop_disarmed(sl) == sl

\* GuardReset::drop
GuardReset_drop(sl) ==
  IF sl.depth = 0 THEN [sl EXCEPT !.active = FALSE, !.tid = 0]
  ELSE IF sl.depth - 1 = 0
  THEN [sl EXCEPT !.depth = 0, !.active = FALSE, !.last_signal = 0, !.tid = 0]
  ELSE [sl EXCEPT !.depth = @ - 1]

GuardRest ==
  UNCHANGED <<envVars, coreVars, hubVars, threadVars, histVars, lockVars, pass, pathname,
              probe>>

\* with_guard_impl up to the call of the closure; blocked tells whether
\* SignalMaskGuard::block succeeds
with_guard_enter(t, blocked) ==
  /\ ~crashed
  /\ LET a == acquire_slot(guard, t)
         depth == a.g.slots[a.slot].depth
     IN IF ~blocked
        THEN guard' = [a.g EXCEPT !.last = [kind |-> "block_failed", t |-> t, slot |-> a.slot,
                                           before |-> depth,
                                           outermost |-> guard.calls[t] = <<>>]]
        ELSE IF depth >= GUARD_STACK_DEPTH_MAX
        THEN guard' = [a.g EXCEPT !.last = [kind |-> "overflow", t |-> t, slot |-> a.slot,
                                           before |-> depth,
                                           outermost |-> guard.calls[t] = <<>>]]
        ELSE guard' = [a.g EXCEPT
                         !.slots[a.slot] =
                            [@ EXCEPT !.last_signal = 0, !.depth = depth + 1, !.active = TRUE,
                                      !.env_stack[depth + 1] = Len(guard.calls[t]) + 1],
                         !.calls[t] = Append(@, [slot |-> a.slot, depth |-> depth]),
                         !.last = [kind |-> "none"]]
  /\ GuardRest

\* the closure returns: Ok(f()), then the drop of GuardReset
closure_returns(t) ==
  /\ ~crashed /\ guard.calls[t] # <<>>
  /\ LET n == Len(guard.calls[t])
         f == guard.calls[t][n]
     IN guard' = [guard EXCEPT
                    !.slots[f.slot] = GuardReset_drop(@),
                    !.calls[t] = SubSeq(@, 1, n - 1),
                    !.last = [kind |-> "returned", t |-> t, slot |-> f.slot,
                              before |-> f.depth, outermost |-> n = 1]]
  /\ GuardRest

\* the closure faults: maybe_jump_guard_slot, siglongjmp to the environment at
\* depth - 1, Err(SegvErr), then the drop of GuardReset in the frame jumped to
closure_faults(t) ==
  /\ ~crashed /\ guard.calls[t] # <<>>
  /\ LET i == find_active_slot_by_tid(guard, t)
         depth == guard.slots[i].depth
         to == guard.slots[i].env_stack[depth]
     IN IF i = 0 \/ depth = 0 \/ depth > GUARD_STACK_DEPTH_MAX
        THEN crashed' = TRUE /\ UNCHANGED guard
        ELSE IF to = 0 \/ to > Len(guard.calls[t])
        THEN crashed' = TRUE /\ UNCHANGED guard
        ELSE /\ guard' = [guard EXCEPT
                            !.slots[guard.calls[t][to].slot] =
                               GuardReset_drop([@ EXCEPT !.last_signal = 1]),
                            !.calls[t] = SubSeq(@, 1, to - 1),
                            !.last = [kind |-> "recovered", t |-> t,
                                      slot |-> guard.calls[t][to].slot,
                                      before |-> guard.calls[t][to].depth,
                                      outermost |-> to = 1]]
             /\ UNCHANGED crashed
  /\ UNCHANGED <<loaded, inst, nsid, got, pid, now, faults, coreVars, hubVars, threadVars,
                 histVars, lockVars, pass, pathname, probe>>

GuardInit ==
  /\ EngineInit /\ pass = NoPass /\ SideInit
  /\ faults = 0 /\ env_left = 0 /\ clears_left = 0 /\ ticks_left = 0

GuardNext ==
  \/ \E t \in Threads, blocked \in BOOLEAN: with_guard_enter(t, blocked)
  \/ \E t \in Threads: closure_returns(t)
  \/ \E t \in Threads: closure_faults(t)

GuardSpec == GuardInit /\ [][GuardNext]_vars

\* C33: a with_guard call that returns normally, recovers from a fault through
\* the handler's jump, or fails because the nesting depth 8 is reached leaves
\* the depth of the thread's guard slot as it found it; when the outermost
\* guard of a thread ends, the slot is inactive and released.
C33_GuardDepthRestored ==
  LET l == guard.last
  IN l.kind \in {"returned", "recovered", "overflow"} =>
       /\ guard.slots[l.slot].depth = l.before
       /\ Len(guard.calls[l.t]) = l.before
       /\ l.outermost =>
             /\ l.before = 0
             /\ ~guard.slots[l.slot].active
             /\ guard.slots[l.slot].tid = 0

\* a thread came back from a fault in its outermost guard while the other
\* thread, in a slot of its own, is two guards deep
C33_Witness ==
  /\ guard.last.kind = "recovered" /\ guard.last.outermost
  /\ \E t \in Threads: Len(guard.calls[t]) = 2
  /\ Len(guard.slots) > BaseSlots

\* a call was refused at depth 8 and the slot is as deep as before
C33_WitnessFull ==
  guard.last.kind = "overflow" /\ guard.slots[guard.last.slot].depth = GUARD_STACK_DEPTH_MAX

\* ---- the GOT words and the bookkeeping of the engine ----
\* the SlotEntry kept for slot s of the image of m that is loaded now, under
\* whatever namespace the image was known by
EntriesOf(m, s) ==
  {k \in DOMAIN slots: k[1] = m /\ k[2] = inst[m] /\ k[4] = s}

\* C35: when a GOT slot of a loaded module holds a hub trampoline, the hub is
\* live and is the hub of a SlotEntry kept for that slot whose task_chain is not
\* empty and whose orig_func is no trampoline.
C35_TrampolineIsTracked ==
  \A m \in Modules, s \in Syms:
    (loaded[m] /\ IsTrampo(got[m][s])) =>
      /\ got[m][s][2] \in DOMAIN hubs
      /\ hubs[got[m][s][2]].st = "live"
      /\ \E k \in EntriesOf(m, s):
            /\ slots[k].hub_ptr = got[m][s][2]
            /\ slots[k].task_chain # <<>>
            /\ ~IsTrampo(slots[k].orig_func)

\* the slots that task_slots holds for a stub
SlotsOfTask(stub) == IF stub \in DOMAIN task_slots THEN task_slots[stub] ELSE {}

\* C39: after every API operation the two indexes agree: a stub is in the
\* task_chain of a slot exactly when the slot is in the stub's task_slots set,
\* every such stub is a registered task, no stub is twice in a chain, and every
\* SlotEntry kept has a task_chain that is not empty and a hub.
C39_IndexesAgree ==
  /\ \A k \in DOMAIN slots: \A i \in 1..Len(slots[k].task_chain):
        /\ k \in SlotsOfTask(slots[k].task_chain[i])
        /\ slots[k].task_chain[i] \in DOMAIN tasks
        /\ \A j \in 1..Len(slots[k].task_chain): slots[k].task_chain[j] = slots[k].task_chain[i] => j = i
  /\ \A stub \in DOMAIN task_slots: \A k \in task_slots[stub]:
        /\ k \in DOMAIN slots /\ InSeq(slots[k].task_chain, stub)
        /\ stub \in DOMAIN tasks
  /\ \A k \in DOMAIN slots: slots[k].task_chain # <<>> /\ slots[k].hub_ptr # 0

\* ---- thread_state.rs destroy_thread_state: a thread ends inside a hooked call
\* (pthread_exit in a proxy); its ThreadRuntimeState is dropped as it is ----
\* the counter is capped: a thread ends only while the counter counts fewer
\* than MaxLeak frames beyond the thread's own
MaxLeak == 1

destroy_thread_state(t) ==
  /\ ~crashed /\ cstack[t] # <<>>
  /\ active_frames - Len(hub_stack[t]) < MaxLeak
  /\ cstack' = [cstack EXCEPT ![t] = <<>>]
  /\ hub_stack' = [hub_stack EXCEPT ![t] = <<>>]
  /\ proxy_stack' = [proxy_stack EXCEPT ![t] = <<>>]
  /\ site' = [site EXCEPT ![t] = <<0, 0>>]
  /\ trace' = [trace EXCEPT ![t] = <<>>]
  /\ UNCHANGED <<envVars, coreVars, hubVars, histVars, lockVars, pass, sideVars>>

ExitNext ==
  \/ StressNext
  \/ \E t \in Threads: destroy_thread_state(t)

ExitSpec == StressInit /\ [][ExitNext]_vars

\* the HubFrames on the hub stacks of all the threads
RECURSIVE FramesOn(_)
FramesOn(ts) ==
  IF ts = {} THEN 0
  ELSE LET t == CHOOSE x \in ts: TRUE IN Len(hub_stack[t]) + FramesOn(ts \ {t})

\* C38: the global counter of active frames equals the number of HubFrames on
\* the stacks of all the threads; it never underflows, and it is zero when no
\* hooked call is under way.
C38_CounterCountsFrames ==
  /\ active_frames = FramesOn(Threads)
  /\ active_frames >= 0
  /\ (\A t \in Threads: cstack[t] = <<>>) => active_frames = 0

\* after the step a thread has a HubFrame of hub h, or runs in its trampoline
InUseAfter(h) ==
  \E t \in Threads:
     \/ \E i \in 1..Len(hub_stack'[t]): hub_stack'[t][i].hub_id = h
     \/ \E i \in 1..Len(cstack'[t]): cstack'[t][i].k = "T" /\ cstack'[t][i].h = h

\* C36: no hub is destroyed while the hub stack of a thread holds a frame of it
\* or a thread runs in its trampoline.
C36_NoDestroyWhileInUse ==
  [][\A h \in DOMAIN hubs: Destroyed(h) => ~InUseAfter(h)]_vars
====
